---- MODULE Spec2Model ----
(***************************************************************************)
(* A model of src/AzStorage.c: the block / thread partition of a transfer, *)
(* the retry classification, the retry wrappers with their backoff sleep,  *)
(* and the threaded upload and download with the reduction of the          *)
(* per-thread response codes.                                              *)
(***************************************************************************)
EXTENDS Integers, Sequences, FiniteSets, TLC

(***************************************************************************)
(* Bounds of the model.                                                    *)
(***************************************************************************)
MaxPlanSize == 9
MaxPlanBlocks == 4
MaxRetryCodes == 2
MaxAttemptIndex == 9
MaxRetry == 3
MaxTime == 2
MaxThreads == 2
MaxBlocks == 2
MaxDataSize == 3
MaxDeliver == 2
MaxThreadedRetry == 2
MaxBytes == 2
MaxStubSize == 10
MaxStubBlocks == 3
MaxStubRetry == 3
MaxOtherFields == 1

(***************************************************************************)
(* Codes of libcurl and HTTP the model draws from, and limits of the C     *)
(* library.                                                                *)
(***************************************************************************)
CURLE_OK == 0
CURLE_WRITE_ERROR == 23
CURLE_OPERATION_TIMEDOUT == 28
HTTP_OK == 200
HTTP_SWITCHING == 101
HTTP_UNAVAILABLE == 503
RAND_MAX == 2147483647
NANO == 1000000000
MAXIMUM_BACKOFF == 256

HTTP_NONE == 0
GRACE == 600
SENTINEL == 1000

\* response codes a transfer may end with: HTTP_NONE when no response arrived,
\* which never comes with CURLE_OK
HttpCodes == {HTTP_SWITCHING, HTTP_OK, HTTP_UNAVAILABLE}
CurlCodes == {CURLE_OK, CURLE_OPERATION_TIMEDOUT}
RetryAfters == {-1, 0, 3}
TransportCodes ==
    {hc \in (HttpCodes \cup {HTTP_NONE}) \X CurlCodes :
        hc[1] = HTTP_NONE => hc[2] # CURLE_OK}

(***************************************************************************)
(* Macros of AzStorage.h.                                                  *)
(***************************************************************************)
MAX(x, y) == IF x > y THEN x ELSE y
MIN(x, y) == IF x < y THEN x ELSE y

VARIABLES
    N_HTTP_RETRY_CODES,     \* globals of AzStorage.c, set by curl_init
    N_CURL_RETRY_CODES,
    HTTP_RETRY_CODES,       \* the array a pointer refers to, <<>> for NULL
    CURL_RETRY_CODES,
    rc_pc,          \* "init" before curl_init, "call", then "returned"
    rc_status,      \* the argument of the isrestretrycode call
    rc_result,      \* and what it returned
    bo_i,           \* exponential_backoff: i
    bo_retry_after, \* exponential_backoff: retry_after
    bo_pc,          \* "call" before exponential_backoff is called, then "returned"
    bo_rand,        \* the value rand() returned
    bo_ts,          \* ts_sleeptime handed to nanosleep
    bo_rv,          \* what exponential_backoff returned
    r_kind,         \* the wrapper: "write", "read" or "refresh"
    r_nretry,       \* its arguments nretry and verbose
    r_verbose,
    r_pc,           \* "invoke", "classify", "backoff", "done" or "crashed"
    r_iretry,       \* its locals iretry and responsecodes
    r_responsecodes,
    r_returned,     \* the value it returned, once r_pc = "done"
    r_now,          \* the clock time(NULL) reads
    r_cred,         \* the credential curl_refresh_tokens_retry is given
    r_hist,         \* what happened so far: see RetryInit
    op,             \* "write": curl_writebytes_block_retry_threaded,
                    \* "read": curl_readbytes_retry_threaded
    datasize,       \* its arguments
    nthreads,
    nblocks,
    nretry,
    mpc,            \* the calling thread: "parallel" (inside the parallel
                    \* region) or "returned"
    pc,             \* per thread: "start", "perform", "write_error"
                    \* or "barrier"
    iblock,         \* per thread: the block (write) or sub-range (read) in hand
    iretry,         \* per thread: iretry of the retry wrapper
    currentsize,    \* per thread: datastruct.currentsize of curl_readbytes
    pending,        \* per thread: size*nmemb of the delivery being handled
    written,        \* per thread: the offsets into data it has written
    thread_responsecode_http,   \* the per-thread arrays
    thread_responsecode_curl,
    slot_set,       \* per thread: its array elements hold a value
    result,         \* the ResponseCodes returned to the caller
    final,          \* per chunk: what its retry wrapper returned, and to whom
    stub,           \* per chunk, when a stub stands in for the transport: the
                    \* times it fails before it succeeds, and its calls so
                    \* far; <<>> with the transport itself
    credential,     \* the caller's credential, whose bearer token is the
                    \* argument token of the threaded transfer
    refreshed,      \* a thread of the transfer has called curl_refresh_tokens
    rf_pc,          \* one call of curl_refresh_tokens: "call", "returned"
                    \* or "crashed"
    rf_cred,        \* the credential it is given
    rf_now,         \* what time(NULL) returns
    rf_verbose,     \* its argument verbose
    rf_out,         \* what the call did: see TokenOutcome
    pg_pc,          \* a transfer with progress_callback: "running" or "aborted"
    pg_progressstruct,  \* its struct ProgressStruct
    pg_now,         \* the clock time(NULL) reads
    pg_tick,        \* the last call of progress_callback: see NoTick
    pg_stalled,     \* the transfer moves no more bytes from now on
    pg_last_increase,   \* the clock when a call last saw a counter above the
                    \* one of the call before, or when the transfer started
    ps_pc,          \* update_tokens_from_refresh_token: "scan" in its while
                    \* loop, "done", or "crashed"
    ps_data,        \* its argument data, the characters before the NUL
    ps_counter,     \* its local counter (_data is data + counter)
    ps_bearer_token,    \* what bearer_token, refresh_token and *expiry hold
    ps_refresh_token,
    ps_expiry,
    ps_fields,      \* the values the body was written with
    rd_args,        \* one thread of curl_readbytes_retry_threaded: datasize,
                    \* nthreads, nretry and its threadid
    rd_pc,          \* "call" before a call of curl_readbytes, "perform" in
                    \* its curl_easy_perform, "write_error" when the callback
                    \* refused a delivery, "done" when the wrapper returned
    rd_iretry,      \* iretry of curl_readbytes_retry
    rd_currentsize, \* datastruct.currentsize
    rd_delivered,   \* the bytes libcurl handed to the callback in this attempt
    rd_data,        \* the sub-range: for each offset the attempt that wrote it
                    \* (0: none) and which byte of that attempt's body it is
    rd_stale,       \* the most bytes an earlier attempt left in the sub-range
    rd_excess,      \* an attempt delivered more than the sub-range holds
    rd_overrun,     \* write_callback_readdata reported "read too many bytes"
    rd_status,      \* what the last curl_readbytes returned
    p_datasize,     \* curl_writebytes_block_retry_threaded: datasize
    p_nblocks,      \* curl_writebytes_block_retry_threaded: nblocks
    p_plan          \* <<block_firstbyte, _block_datasize>> of iblock = 0, 1, ...

planVars == <<p_datasize, p_nblocks, p_plan>>

globalVars == <<N_HTTP_RETRY_CODES, N_CURL_RETRY_CODES, HTTP_RETRY_CODES, CURL_RETRY_CODES>>
rcVars == <<rc_pc, rc_status, rc_result>>
boVars == <<bo_i, bo_retry_after, bo_pc, bo_rand, bo_ts, bo_rv>>

retryVars == <<r_kind, r_nretry, r_verbose, r_pc, r_iretry, r_responsecodes,
               r_returned, r_now, r_cred, r_hist>>

threadVars == <<op, datasize, nthreads, nblocks, nretry, mpc, pc, iblock,
                iretry, currentsize, pending, written,
                thread_responsecode_http, thread_responsecode_curl, slot_set,
                result, final, stub, credential, refreshed>>

refreshVars == <<rf_pc, rf_cred, rf_now, rf_verbose, rf_out>>

progressVars == <<pg_pc, pg_progressstruct, pg_now, pg_tick, pg_stalled,
                  pg_last_increase>>

parseVars == <<ps_pc, ps_data, ps_counter, ps_bearer_token, ps_refresh_token,
               ps_expiry, ps_fields>>

readVars == <<rd_args, rd_pc, rd_iretry, rd_currentsize, rd_delivered, rd_data,
              rd_stale, rd_excess, rd_overrun, rd_status>>

moreVars == <<parseVars, readVars>>

vars == <<globalVars, rcVars, boVars, retryVars, threadVars, planVars,
          refreshVars, progressVars, moreVars>>

(***************************************************************************)
(* The block plan of curl_writebytes_block_retry_threaded (the same        *)
(* arithmetic partitions the range over the threads of                     *)
(* curl_readbytes_retry_threaded).                                         *)
(***************************************************************************)
block_datasize(size, n) == size \div n

block_dataremainder(size, n) == size % n

block_firstbyte_noremainder(size, n, i) ==
    i * block_datasize(size, n) + i

block_firstbyte(size, n, i) ==
    IF i < block_dataremainder(size, n)
    THEN i * block_datasize(size, n) + i
    ELSE i * block_datasize(size, n)
             + block_dataremainder(size, n)

_block_datasize(size, n, i) ==
    IF i < block_dataremainder(size, n)
    THEN block_datasize(size, n) + 1
    ELSE block_datasize(size, n)


(***************************************************************************)
(* isrestretrycode: the two loops over the global retry tables, each       *)
(* returning 1 at the first entry that equals the code.                    *)
(***************************************************************************)
RECURSIVE code_in_table(_, _, _, _)
code_in_table(code, table, n, i) ==
    IF ~(i < n) THEN FALSE
    ELSE IF code = table[i + 1] THEN TRUE
    ELSE code_in_table(code, table, n, i + 1)

isrestretrycode_both(rcodes) ==
    IF /\ code_in_table(rcodes.http, HTTP_RETRY_CODES, N_HTTP_RETRY_CODES, 0)
       /\ code_in_table(rcodes.curl, CURL_RETRY_CODES, N_CURL_RETRY_CODES, 0)
    THEN 1 ELSE 0

isrestretrycode(rcodes) ==
    IF code_in_table(rcodes.http, HTTP_RETRY_CODES, N_HTTP_RETRY_CODES, 0)
    THEN 1
    ELSE IF code_in_table(rcodes.curl, CURL_RETRY_CODES, N_CURL_RETRY_CODES, 0)
    THEN 1
    ELSE 0

(***************************************************************************)
(* exponential_backoff: the timespec it hands to nanosleep, as a function  *)
(* of i, retry_after and the value rand() returns.  The doubles are        *)
(* modelled by exact rational arithmetic on 32-bit integers:               *)
(* 1.0*rand()/RAND_MAX is the fraction rnd/RAND_MAX, which is 1 exactly    *)
(* when rnd = RAND_MAX.                                                    *)
(***************************************************************************)
\* <<quotient, remainder>> of (a + b) by m, for 0 <= a, b < m, without a + b
AddDivMod(a, b, m) ==
    IF a >= m - b THEN <<1, a - (m - b)>> ELSE <<0, a + b>>

\* <<quotient, remainder>> of (x * n) by m, for 0 <= x < m, by doubling
RECURSIVE MulDivMod(_, _, _)
MulDivMod(x, n, m) ==
    IF n = 0 THEN <<0, 0>>
    ELSE LET h == MulDivMod(x, n \div 2, m)
             d == AddDivMod(h[2], h[2], m)
             e == IF n % 2 = 1 THEN AddDivMod(d[2], x, m) ELSE <<0, d[2]>>
         IN  <<2 * h[1] + d[1] + e[1], e[2]>>

RECURSIVE pow2(_)
pow2(i) == IF i = 0 THEN 1 ELSE 2 * pow2(i - 1)

\* MIN(pow(2.0, (double)i), MAXIMUM_BACKOFF); pow(2.0, i) >= 256 from i = 8 on
backoff_base(i) ==
    IF i >= 8 THEN MAXIMUM_BACKOFF ELSE MIN(pow2(i), MAXIMUM_BACKOFF)

\* the whole seconds of (base + rnd/RAND_MAX): floor() and the (long) cast
whole_seconds(base, rnd) == base + (rnd \div RAND_MAX)

\* (long)((sleeptime - floor(sleeptime)) * 1000000000.0)
frac_nanoseconds(rnd) == MulDivMod(rnd % RAND_MAX, NANO, RAND_MAX)[1]

backoff_timespec(i, retry_after, rnd) ==
    IF retry_after > 0
    THEN [tv_sec  |-> whole_seconds(retry_after, rnd),
          tv_nsec |-> 0]
    ELSE [tv_sec  |-> whole_seconds(backoff_base(i), rnd),
          tv_nsec |-> frac_nanoseconds(rnd)]

\* the values of rand() the model draws: both ends of 0..RAND_MAX, their
\* neighbours and the middle
RandDraws == {0, 1, RAND_MAX \div 2, RAND_MAX - 1, RAND_MAX}

\* what nanosleep may return: 0, or -1 (interrupted, invalid argument)
NanosleepResults == {0, -1}


(***************************************************************************)
(* curl_readbytes_retry_threaded: the sub-range of thread threadid.        *)
(***************************************************************************)
thread_datasize(size, threads) == size \div threads

thread_dataremainder(size, threads) == size % threads

thread_firstbyte(size, threads, threadid) ==
    IF threadid < thread_dataremainder(size, threads)
    THEN threadid * thread_datasize(size, threads) + threadid
    ELSE threadid * thread_datasize(size, threads)
             + thread_dataremainder(size, threads)

_thread_datasize(size, threads, threadid) ==
    IF threadid < thread_dataremainder(size, threads)
    THEN thread_datasize(size, threads) + 1
    ELSE thread_datasize(size, threads)

\* curl_byterange: the two numbers of "Range: bytes=%ld-%ld".  The second is
\* the size_t dataoffset+datasize-1 printed as a long: for dataoffset = 0 and
\* datasize = 0 the unsigned difference wraps to the all-ones value, which
\* %ld prints as -1
curl_byterange(dataoffset, size) ==
    [first |-> dataoffset, last |-> dataoffset + size - 1]

(***************************************************************************)
(* write_callback_readdata on a DataStruct whose data points firstbyte     *)
(* bytes into the caller's buffer: what it returns, the new currentsize    *)
(* and the offsets of the caller's buffer that memcpy writes.              *)
(***************************************************************************)
write_callback_readdata_unchecked(firstbyte, size, current, n) ==
    [ret |-> n, currentsize |-> current + n,
     wrote |-> (firstbyte + current) .. (firstbyte + current + n - 1)]

write_callback_readdata_truncating(firstbyte, size, current, n) ==
    LET newsize == current + n
    IN  IF newsize > size
        THEN [ret |-> 0, currentsize |-> size,
              wrote |-> (firstbyte + current) .. (firstbyte + size - 1)]
        ELSE [ret |-> n, currentsize |-> newsize,
              wrote |-> (firstbyte + current) .. (firstbyte + newsize - 1)]

write_callback_readdata(firstbyte, size, current, n) ==
    LET newsize == current + n
    IN  IF newsize > size
        THEN [ret |-> 0, currentsize |-> current, wrote |-> {}]
        ELSE [ret |-> n, currentsize |-> newsize,
              wrote |-> (firstbyte + current) .. (firstbyte + newsize - 1)]

(***************************************************************************)
(* The per-thread arrays and their reduction.                              *)
(***************************************************************************)
\* thread_responsecode_x[threadid] = MAX(responsecodes.x, thread_responsecode_x[threadid])
keep_last(new, old) == new

keep_worst(new, old) == MAX(new, old)

\* the loop over threadid = 0 .. n-1 that folds the array into acc
RECURSIVE reduce_codes(_, _, _, _)
reduce_codes(acc, codes, threadid, n) ==
    IF ~(threadid < n) THEN acc
    ELSE reduce_codes(MAX(acc, codes[threadid]), codes, threadid + 1, n)

first_thread(n) == 0

\* the threads of the parallel region: num_threads(nthreads) is taken to give
\* a team of exactly nthreads threads
team_one_short(n) == 0 .. (n - 2)

team(n) == 0 .. (n - 1)

(***************************************************************************)
(* The parser of a token response: get_next_quoted_string and              *)
(* update_tokens_from_refresh_token.  A string is the sequence of its      *)
(* characters before the NUL.                                              *)
(***************************************************************************)
QUOTE == "\""

ACCESS_TOKEN == <<QUOTE, "a", "c", "c", "e", "s", "s", "_", "t", "o", "k", "e", "n", QUOTE>>
REFRESH_TOKEN == <<QUOTE, "r", "e", "f", "r", "e", "s", "h", "_", "t", "o", "k", "e", "n", QUOTE>>
EXPIRES_ON == <<QUOTE, "e", "x", "p", "i", "r", "e", "s", "_", "o", "n", QUOTE>>

\* strncmp(str, marker, n) == 0 for a marker of n characters
strncmp_equal(str, marker) ==
    /\ Len(str) >= Len(marker)
    /\ SubSeq(str, 1, Len(marker)) = marker

\* data + n
string_from(str, n) == SubSeq(str, n + 1, Len(str))

\* the 0-based indices of the first two quote characters of str, -1 when
\* there is none: i1 - 1 and i2 + 1 of get_next_quoted_string
quote_indices(str) ==
    LET quotes == {i \in 0..(Len(str) - 1) : str[i + 1] = QUOTE}
        first  == IF quotes = {} THEN -1
                  ELSE CHOOSE i \in quotes : \A j \in quotes : i <= j
        later  == {i \in quotes : i > first}
        second == IF later = {} THEN -1
                  ELSE CHOOSE i \in later : \A j \in later : i <= j
    IN  <<first, second>>

\* strncpy(value, data+i1, i2-i1+1) and the terminating NUL: the characters
\* between the first two quotes; with fewer than two quotes the count or the
\* source is out of range
get_next_quoted_string_inclusive(str) ==
    LET qi == quote_indices(str)
    IN  IF qi[1] < 0 \/ qi[2] < 0
        THEN [crashed |-> TRUE, value |-> <<>>]
        ELSE [crashed |-> FALSE, value |-> SubSeq(str, qi[1] + 2, qi[2] + 1)]

get_next_quoted_string(str) ==
    LET qi == quote_indices(str)
        i1 == qi[1] + 1
        i2 == qi[2] - 1
    IN  IF qi[1] < 0 \/ qi[2] < 0
        THEN [crashed |-> TRUE, value |-> <<>>]
        ELSE [crashed |-> FALSE, value |-> SubSeq(str, i1 + 1, i2 + 1)]

Digits == <<"0", "1", "2", "3", "4", "5", "6", "7", "8", "9">>

IsDigit(c) == \E d \in 1..10 : Digits[d] = c

DigitValue(c) == (CHOOSE d \in 1..10 : Digits[d] = c) - 1

\* the decimal number the leading digits of str spell, after acc
RECURSIVE decimal_prefix(_, _)
decimal_prefix(str, acc) ==
    IF str = <<>> \/ ~IsDigit(Head(str)) THEN acc
    ELSE decimal_prefix(Tail(str), 10 * acc + DigitValue(Head(str)))

\* sscanf(expiry_string, "%lu", expiry): assigns when the string starts with
\* a digit, else leaves *expiry as it was
sscanf_lu(str, old) ==
    IF str # <<>> /\ IsDigit(Head(str)) THEN decimal_prefix(str, 0) ELSE old

(***************************************************************************)
(* callback_retry_after_header on the lines of a response header.          *)
(***************************************************************************)
RETRY_AFTER == <<"R", "e", "t", "r", "y", "-", "A", "f", "t", "e", "r", ":">>

RECURSIVE skip_spaces(_)
skip_spaces(str) ==
    IF str # <<>> /\ Head(str) = " " THEN skip_spaces(Tail(str)) ELSE str

\* sscanf(ptr, "Retry-After:%d", &retry_after) on a line that starts with
\* "Retry-After:": the number of assignments and the value assigned
sscanf_retry_after(line) ==
    LET str == skip_spaces(string_from(line, Len(RETRY_AFTER)))
    IN  IF str # <<>> /\ IsDigit(Head(str))
        THEN [n |-> 1, value |-> decimal_prefix(str, 0)]
        ELSE IF Len(str) >= 2 /\ Head(str) = "-" /\ IsDigit(str[2])
        THEN [n |-> 1, value |-> 0 - decimal_prefix(Tail(str), 0)]
        ELSE [n |-> 0, value |-> 0]

\* data->retry_after after the callback was called with the line
callback_retry_after_header(line, retry_after) ==
    IF strncmp_equal(line, RETRY_AFTER)
    THEN IF sscanf_retry_after(line).n # 1 THEN 0
         ELSE sscanf_retry_after(line).value
    ELSE retry_after

\* header_data.retry_after = 0 before curl_easy_perform
header_data_entry == 0

\* header_data.retry_after after the lines of one response
RECURSIVE captured_retry_after(_, _)
captured_retry_after(lines, retry_after) ==
    IF lines = <<>> THEN retry_after
    ELSE captured_retry_after(Tail(lines),
                              callback_retry_after_header(Head(lines), retry_after))

\* header lines: Retry-After with seconds, with a negative number, with a
\* date, and another header
HeaderLines ==
    {<<"R", "e", "t", "r", "y", "-", "A", "f", "t", "e", "r", ":", " ", "3">>,
     <<"R", "e", "t", "r", "y", "-", "A", "f", "t", "e", "r", ":", "-", "1">>,
     <<"R", "e", "t", "r", "y", "-", "A", "f", "t", "e", "r", ":", " ", "W", "e", "d", ",", " ", "2", "1", " ", "O", "c", "t">>,
     <<"C", "o", "n", "t", "e", "n", "t", "-", "L", "e", "n", "g", "t", "h", ":", " ", "7">>}

\* the header lines of an attempt: none when it made no request
HeaderSequences(requests) ==
    IF requests = 0 THEN {<<>>}
    ELSE {<<>>} \cup {<<h>> : h \in HeaderLines}
            \cup {<<h, g>> : h \in HeaderLines, g \in HeaderLines}

(***************************************************************************)
(* The operations the retry wrappers call, as the set of outcomes one call *)
(* may have.  An outcome is the ResponseCodes returned, the credential     *)
(* after the call and whether the call crashed instead of returning.       *)
(***************************************************************************)
ResponseCodes(http, curl, retry_after) ==
    [http |-> http, curl |-> curl, retry_after |-> retry_after]

Outcome(rcodes, cred, crashed) ==
    [responsecodes |-> rcodes, cred |-> cred, crashed |-> crashed]

\* curl_writebytes_block: whatever curl_easy_perform and the response give;
\* retry_after is 0 unless a Retry-After header set it
curl_writebytes_block(cred) ==
    {Outcome(ResponseCodes(hc[1], hc[2], ra), cred, FALSE) :
        hc \in TransportCodes, ra \in RetryAfters}

\* curl_readbytes: the same, and CURLE_WRITE_ERROR when write_callback_readdata
\* refused a delivery
curl_readbytes(cred) ==
    {Outcome(ResponseCodes(hc[1], hc[2], ra), cred, FALSE) :
        hc \in TransportCodes, ra \in RetryAfters}
    \cup
    {Outcome(ResponseCodes(h, CURLE_WRITE_ERROR, ra), cred, FALSE) :
        h \in HttpCodes, ra \in RetryAfters}

\* the body a token request leaves in datastruct.data: a token response, a
\* body without the fields, or NULL when the callback was never called
TokenBodies == {"tokens", "error", "NULL"}

\* without a response (http code 0) token_callback_readdata was never called
token_bodies(http) == IF http = HTTP_NONE THEN {"NULL"} ELSE TokenBodies

NewExpiry == GRACE + MaxTime + 1

\* the branch that follows curl_easy_perform in both token flows: the else
\* branch, which parses the body, is taken unless the request failed and
\* verbose > 0
parses_body(http, curl, verbose) ==
    ~((curl # CURLE_OK \/ http >= 300) /\ verbose > 0)

\* an outcome of curl_refresh_tokens with what the call did: the branch taken
\* ("fresh", "client_credentials", "refresh_token" or "unable"), the number
\* of token requests, the body the request left and whether it was parsed
TokenOutcome(o, flow, requests, body, parsed) ==
    [responsecodes |-> o.responsecodes, cred |-> o.cred, crashed |-> o.crashed,
     flow |-> flow, requests |-> requests, body |-> body, parsed |-> parsed]

\* what a token request may end with: the codes, the Retry-After header value
\* and the body
TokenResponses ==
    {[http |-> hc[1], curl |-> hc[2], retry_after |-> ra, body |-> body] :
        hc \in TransportCodes, ra \in RetryAfters, body \in TokenBodies}

token_responses == {r \in TokenResponses : r.body \in token_bodies(r.http)}

curl_refresh_tokens_from_refresh_token(cred, verbose) ==
    {TokenOutcome(
        Outcome(ResponseCodes(r.http, r.curl, r.retry_after),
                IF parses_body(r.http, r.curl, verbose) /\ r.body = "tokens"
                THEN [cred EXCEPT !.bearer_token = "B1", !.refresh_token = "R1",
                                  !.expiry = NewExpiry]
                ELSE cred,
                \* strlen(NULL) in update_tokens_from_refresh_token
                parses_body(r.http, r.curl, verbose) /\ r.body = "NULL"),
        "refresh_token", 1, r.body, parses_body(r.http, r.curl, verbose)) :
        r \in token_responses}

curl_refresh_tokens_from_client_credentials(cred, verbose) ==
    {TokenOutcome(
        Outcome(ResponseCodes(r.http, r.curl, r.retry_after),
                IF parses_body(r.http, r.curl, verbose) /\ r.body = "tokens"
                THEN [cred EXCEPT !.bearer_token = "B1", !.expiry = NewExpiry]
                ELSE cred,
                \* strlen(NULL) in update_tokens_from_client_secret
                parses_body(r.http, r.curl, verbose) /\ r.body = "NULL"),
        "client_credentials", 1, r.body, parses_body(r.http, r.curl, verbose)) :
        r \in token_responses}

\* current_time < (*expiry - 600) on unsigned long: below 600 the difference
\* wraps to 2^64 - 600 + expiry, which every clock value is below
within_grace(current_time, expiry) ==
    IF expiry >= GRACE THEN current_time < expiry - GRACE ELSE TRUE

\* the if / else if / else that picks the flow from the two pointers
select_flow_secret_first(cred) ==
    IF cred.client_secret # "NULL" THEN "client_credentials"
    ELSE IF cred.refresh_token # "NULL" THEN "refresh_token"
    ELSE "unable"

select_flow(cred) ==
    IF cred.refresh_token = "NULL" /\ cred.client_secret # "NULL"
    THEN "client_credentials"
    ELSE IF cred.refresh_token # "NULL" THEN "refresh_token"
    ELSE "unable"

\* the status of the last branch: no refresh token and no client secret
unable_status_success == ResponseCodes(HTTP_OK, CURLE_OK, 0)

unable_status == ResponseCodes(SENTINEL, SENTINEL, 0)

curl_refresh_tokens(cred, current_time, verbose) ==
    IF within_grace(current_time, cred.expiry)
    THEN \* responsecodes.retry_after is left unset on this path
         {TokenOutcome(Outcome(ResponseCodes(HTTP_OK, CURLE_OK, ra), cred, FALSE),
                       "fresh", 0, "NULL", FALSE) :
             ra \in RetryAfters}
    ELSE CASE select_flow(cred) = "client_credentials" ->
                 curl_refresh_tokens_from_client_credentials(cred, verbose)
           [] select_flow(cred) = "refresh_token" ->
                 curl_refresh_tokens_from_refresh_token(cred, verbose)
           [] select_flow(cred) = "unable" ->
                 {TokenOutcome(Outcome(unable_status, cred, FALSE),
                               "unable", 0, "NULL", FALSE)}

wrapped_operation(kind, cred, current_time, verbose) ==
    CASE kind = "write"   -> curl_writebytes_block(cred)
      [] kind = "read"    -> curl_readbytes(cred)
      [] kind = "refresh" -> curl_refresh_tokens(cred, current_time, verbose)

(***************************************************************************)
(* The retry wrappers curl_writebytes_block_retry, curl_readbytes_retry    *)
(* and curl_refresh_tokens_retry: the same loop around the three           *)
(* operations.                                                             *)
(***************************************************************************)
\* iretry++ of for (iretry = 0; iretry < nretry; iretry++)
next_iretry_stuck(i) == i

next_iretry(i) == i + 1

\* the condition of for (iretry = 0; iretry < nretry; iretry++)
loop_continues_once_more(i, n) == i <= n

loop_continues(i, n) == i < n

\* if (exponential_backoff(iretry, responsecodes.retry_after) != 0) break
backoff_failed_ignored(rv) == FALSE

backoff_failed(rv) == rv # 0

(***************************************************************************)
(* progress_callback, called by libcurl with the transfer counters: what   *)
(* it returns and the ProgressStruct it leaves.  now1 and now2 are what    *)
(* its two calls of time(NULL) return.                                     *)
(***************************************************************************)
ProgressStruct(start_time, read_timeout, dlprev, ulprev) ==
    [start_time |-> start_time, read_timeout |-> read_timeout,
     dlprev |-> dlprev, ulprev |-> ulprev]

progress_callback_no_reset(ps, now1, now2, dlnow, ulnow) ==
    LET elapsed_time == now1 - ps.start_time
        dldelta == dlnow - ps.dlprev
        uldelta == ulnow - ps.ulprev
    IN  IF \/ (dldelta = 0 /\ elapsed_time >= ps.read_timeout)
           \/ (uldelta = 0 /\ elapsed_time >= ps.read_timeout)
        THEN [ret |-> 1, progressstruct |-> ps]
        ELSE [ret |-> 0, progressstruct |-> ps]

progress_callback(ps, now1, now2, dlnow, ulnow) ==
    LET elapsed_time == now1 - ps.start_time
        dldelta == dlnow - ps.dlprev
        uldelta == ulnow - ps.ulprev
    IN  IF \/ (dldelta = 0 /\ elapsed_time >= ps.read_timeout)
           \/ (uldelta = 0 /\ elapsed_time >= ps.read_timeout)
        THEN [ret |-> 1, progressstruct |-> ps]
        ELSE IF dldelta > 0 \/ uldelta > 0
        THEN [ret |-> 0,
              progressstruct |-> ProgressStruct(now2, ps.read_timeout, dlnow, ulnow)]
        ELSE [ret |-> 0, progressstruct |-> ps]

(***************************************************************************)
(* Initial values and actions, one group of variables at a time.           *)
(***************************************************************************)
\* the globals as AzStorage.c defines them, before curl_init
GlobalsInit ==
    /\ N_HTTP_RETRY_CODES = 0
    /\ N_CURL_RETRY_CODES = 0
    /\ HTTP_RETRY_CODES = <<>>
    /\ CURL_RETRY_CODES = <<>>

SeqsUpTo(S, n) == UNION {[1..k -> S] : k \in 0..n}

RetryTablesHttp == SeqsUpTo({HTTP_OK, HTTP_UNAVAILABLE}, MaxRetryCodes)
RetryTablesCurl == SeqsUpTo(CurlCodes, MaxRetryCodes)

NoStatus == [http |-> 0, curl |-> 0, retry_after |-> 0]

RcInit ==
    /\ rc_pc = "init"
    /\ rc_status = NoStatus
    /\ rc_result = 0

RcIdle == RcInit

\* curl_init: the caller's arrays and counts become the global tables
curl_init(n_http_retry_codes, n_curl_retry_codes, http_retry_codes, curl_retry_codes) ==
    /\ HTTP_RETRY_CODES' = http_retry_codes
    /\ N_HTTP_RETRY_CODES' = n_http_retry_codes
    /\ CURL_RETRY_CODES' = curl_retry_codes
    /\ N_CURL_RETRY_CODES' = n_curl_retry_codes

RcConfigure ==
    /\ rc_pc = "init"
    /\ \E h \in RetryTablesHttp, c \in RetryTablesCurl :
         \E nh \in 0..Len(h), nc \in 0..Len(c) :
            curl_init(nh, nc, h, c)
    /\ rc_pc' = "call"
    /\ rc_status' = NoStatus
    /\ rc_result' = 0

RcClassify ==
    /\ rc_pc \in {"init", "call"}
    /\ \E http \in HttpCodes, curl \in CurlCodes, retry_after \in RetryAfters :
         LET rcodes == [http |-> http, curl |-> curl, retry_after |-> retry_after]
         IN  /\ rc_pc' = "returned"
             /\ rc_status' = rcodes
             /\ rc_result' = isrestretrycode(rcodes)
    /\ UNCHANGED globalVars

\* the configurations curl_init leaves the retry wrappers with
RetryConfigsHttp == {<<>>, <<HTTP_UNAVAILABLE>>, <<HTTP_OK, HTTP_UNAVAILABLE>>}
RetryConfigsCurl == {<<>>, <<CURLE_OPERATION_TIMEDOUT>>, <<CURLE_WRITE_ERROR>>}

GlobalsConfigured ==
    /\ HTTP_RETRY_CODES \in RetryConfigsHttp
    /\ CURL_RETRY_CODES \in RetryConfigsCurl
    /\ N_HTTP_RETRY_CODES = Len(HTTP_RETRY_CODES)
    /\ N_CURL_RETRY_CODES = Len(CURL_RETRY_CODES)

NoCredential ==
    [bearer_token |-> "B0", refresh_token |-> "NULL", client_secret |-> "NULL",
     expiry |-> 0]

Credentials ==
    [bearer_token : {"B0"}, refresh_token : {"NULL", "R0"},
     client_secret : {"NULL", "S"}, expiry : {0, GRACE, GRACE + 1}]

NoHistory ==
    [attempts |-> 0,                \* calls of the wrapped operation
     sleeps |-> 0,                  \* calls of exponential_backoff
     warnings |-> 0,                \* retry warnings printed
     last |-> NoStatus,             \* what the last call returned
     requests |-> 0,                \* the requests the last call made
     earlier_retryable |-> TRUE,    \* every status before the last was in a retry set
     sleep_failed |-> FALSE,        \* an exponential_backoff call returned non-zero
     sleep_arg |-> <<0, 0>>]        \* the arguments of the last exponential_backoff

RetryInit ==
    /\ r_kind \in {"write", "read", "refresh"}
    /\ r_nretry \in 1..MaxRetry
    /\ r_verbose \in {0, 1}
    /\ r_pc = "invoke"
    /\ r_iretry = 0
    /\ r_responsecodes = NoStatus
    /\ r_returned = NoStatus
    /\ r_now = 0
    /\ r_cred \in Credentials
    /\ r_kind # "refresh" => r_cred = NoCredential
    /\ r_hist = NoHistory

RetryIdle ==
    /\ r_kind = "write"
    /\ r_nretry = 1
    /\ r_verbose = 0
    /\ r_pc = "done"
    /\ r_iretry = 0
    /\ r_responsecodes = NoStatus
    /\ r_returned = NoStatus
    /\ r_now = 0
    /\ r_cred = NoCredential
    /\ r_hist = NoHistory

InRetrySets(rcodes) ==
    \/ \E k \in 1..N_HTTP_RETRY_CODES : HTTP_RETRY_CODES[k] = rcodes.http
    \/ \E k \in 1..N_CURL_RETRY_CODES : CURL_RETRY_CODES[k] = rcodes.curl

\* responsecodes = <operation>(...): one call of the wrapped operation;
\* curl_refresh_tokens reads the clock, which may have advanced
RetryInvoke ==
    /\ r_pc = "invoke"
    /\ \E t \in r_now..MaxTime :
         /\ r_now' = (IF r_kind = "refresh" THEN t ELSE r_now)
         /\ \E o \in wrapped_operation(r_kind, r_cred, r_now', r_verbose) :
              /\ r_cred' = o.cred
              /\ r_hist' = [r_hist EXCEPT
                    !.attempts = @ + 1,
                    !.last = o.responsecodes,
                    !.requests = IF "requests" \in DOMAIN o THEN o.requests ELSE 1,
                    !.earlier_retryable =
                        @ /\ (r_hist.attempts = 0 \/ InRetrySets(r_hist.last))]
              /\ IF o.crashed
                 THEN r_pc' = "crashed" /\ UNCHANGED r_responsecodes
                 ELSE r_pc' = "classify" /\ r_responsecodes' = o.responsecodes
    /\ UNCHANGED <<r_kind, r_nretry, r_verbose, r_iretry, r_returned>>

\* if (isrestretrycode(responsecodes) == 0) break; the warning when verbose > 0
RetryClassify ==
    /\ r_pc = "classify"
    /\ IF isrestretrycode(r_responsecodes) = 0
       THEN /\ r_pc' = "done"
            /\ r_returned' = r_responsecodes
            /\ UNCHANGED r_hist
       ELSE /\ r_pc' = "backoff"
            /\ r_hist' = [r_hist EXCEPT
                  !.warnings = IF r_verbose > 0 THEN @ + 1 ELSE @]
            /\ UNCHANGED r_returned
    /\ UNCHANGED <<r_kind, r_nretry, r_verbose, r_iretry, r_responsecodes,
                   r_now, r_cred>>

\* exponential_backoff(iretry, responsecodes.retry_after), the break when it
\* fails, else iretry++ and the loop condition
RetryBackoff ==
    /\ r_pc = "backoff"
    /\ \E rv \in NanosleepResults :
         /\ r_hist' = [r_hist EXCEPT
               !.sleeps = @ + 1,
               !.sleep_failed = @ \/ rv # 0,
               !.sleep_arg = <<r_iretry, r_responsecodes.retry_after>>]
         /\ IF backoff_failed(rv)
            THEN /\ r_pc' = "done"
                 /\ r_returned' = r_responsecodes
                 /\ UNCHANGED r_iretry
            ELSE /\ r_iretry' = r_iretry + 1
                 /\ IF loop_continues(r_iretry + 1, r_nretry)
                    THEN r_pc' = "invoke" /\ UNCHANGED r_returned
                    ELSE r_pc' = "done" /\ r_returned' = r_responsecodes
    /\ UNCHANGED <<r_kind, r_nretry, r_verbose, r_responsecodes, r_now, r_cred>>

(***************************************************************************)
(* The threaded transfers.  A chunk is a block of the upload (iblock) or   *)
(* the sub-range of a thread of the download (threadid).                   *)
(***************************************************************************)
\* what an array element that was never assigned may hold
GarbageCodes == {-1, SENTINEL}

Codes(http, curl) == [http |-> http, curl |-> curl]

\* what one curl_easy_perform of a block or range request may end with:
\* success, a response below 200, an error response, no response at all
ThreadedCodes ==
    {Codes(HTTP_OK, CURLE_OK), Codes(HTTP_SWITCHING, CURLE_OK),
     Codes(HTTP_UNAVAILABLE, CURLE_OK), Codes(HTTP_NONE, CURLE_OPERATION_TIMEDOUT)}

\* and when write_callback_readdata refused a delivery of the response body
WriteErrorCodes == {Codes(HTTP_OK, CURLE_WRITE_ERROR)}

NoFinal == [done |-> FALSE, http |-> 0, curl |-> 0]

nchunks == IF op = "write" THEN nblocks ELSE nthreads

chunk_firstbyte(c) ==
    IF op = "write" THEN block_firstbyte(datasize, nblocks, c)
    ELSE thread_firstbyte(datasize, nthreads, c)

chunk_datasize(c) ==
    IF op = "write" THEN _block_datasize(datasize, nblocks, c)
    ELSE _thread_datasize(datasize, nthreads, c)

\* for (iretry = 0; ...): a call of a retry wrapper starts its own count,
\* whatever the call before it on the same thread ended with
wrapper_entry_iretry_stale(previous) == previous

wrapper_entry_iretry(previous) == 0

\* omp for without a schedule clause: the static schedule, which gives thread
\* t the iterations static_first(t) .. static_first(t + 1) - 1
static_first_noremainder(n, threads, t) == t * (n \div threads)

static_first(n, threads, t) ==
    t * (n \div threads) + MIN(t, n % threads)

ThreadIdle ==
    /\ op = "write"
    /\ datasize = 0
    /\ nthreads = 1
    /\ nblocks = 1
    /\ nretry = 1
    /\ mpc = "returned"
    /\ pc = <<>>
    /\ iblock = <<>>
    /\ iretry = <<>>
    /\ currentsize = <<>>
    /\ pending = <<>>
    /\ written = <<>>
    /\ thread_responsecode_http = <<>>
    /\ thread_responsecode_curl = <<>>
    /\ slot_set = <<>>
    /\ result = Codes(0, 0)
    /\ final = <<>>
    /\ stub = <<>>
    /\ credential = NoCredential
    /\ refreshed = FALSE

\* the credential of the caller of a threaded transfer: a refresh is due
\* and possible when the transfer is called
CallerCredential ==
    [bearer_token |-> "B0", refresh_token |-> "R0", client_secret |-> "S",
     expiry |-> GRACE]

\* what a thread calls for an attempt on a chunk: curl_writebytes_block in an
\* upload, curl_readbytes in a download
worker_operation_refreshing(kind) == "refresh"

worker_operation(kind) == kind

\* what the call leaves of the credential, and whether it was a call of
\* curl_refresh_tokens
worker_effects(kind, cred) ==
    {[cred |-> o.cred, refreshed |-> worker_operation(kind) = "refresh"] :
        o \in wrapped_operation(worker_operation(kind), cred, MaxTime, 0)}

\* the state on entry to the parallel region: the upload has set every array
\* element to (200, CURLE_OK), the download has not assigned any
ThreadEntry(sizes, maxblocks, maxretry) ==
    /\ op \in {"write", "read"}
    /\ datasize \in sizes
    /\ nthreads \in 1..MaxThreads
    /\ nblocks \in 1..maxblocks
    /\ op = "read" => nblocks = 1
    /\ nretry \in 1..maxretry
    /\ mpc = "parallel"
    /\ pc = [t \in team(nthreads) |-> "start"]
    /\ iblock = [t \in team(nthreads) |-> 0]
    /\ iretry = [t \in team(nthreads) |-> 0]
    /\ currentsize = [t \in team(nthreads) |-> 0]
    /\ pending = [t \in team(nthreads) |-> 0]
    /\ written = [t \in team(nthreads) |-> {}]
    /\ thread_responsecode_http = [t \in 0..(nthreads - 1) |-> IF op = "write" THEN HTTP_OK ELSE 0]
    /\ thread_responsecode_curl = [t \in 0..(nthreads - 1) |-> IF op = "write" THEN CURLE_OK ELSE 0]
    /\ slot_set = [t \in 0..(nthreads - 1) |-> op = "write"]
    /\ result = Codes(0, 0)
    /\ final = [c \in 0..((IF op = "write" THEN nblocks ELSE nthreads) - 1) |-> NoFinal]
    /\ credential = CallerCredential
    /\ refreshed = FALSE

\* a transfer over the transport itself
ThreadInit ==
    /\ ThreadEntry(0..MaxDataSize, MaxBlocks, MaxThreadedRetry)
    /\ stub = <<>>

\* a transfer of one byte over the transport itself
LiveInit ==
    /\ ThreadEntry({1}, MaxBlocks, MaxThreadedRetry)
    /\ stub = <<>>

\* a transfer over a stub that, for each chunk, fails with a retryable status
\* a given number of times and then succeeds, never calls the write callback,
\* and with which every sleep succeeds
StubInit ==
    /\ ThreadEntry({MaxStubSize}, MaxStubBlocks, MaxStubRetry)
    /\ stub \in [0..((IF op = "write" THEN nblocks ELSE nthreads) - 1) ->
                    [fail : 0..nretry, calls : {0}]]

Stubbed(c) == c \in DOMAIN stub

\* what curl_easy_perform of an attempt for chunk c may end with
attempt_codes(c, write_error) ==
    IF write_error THEN WriteErrorCodes
    ELSE IF Stubbed(c)
    THEN {IF stub[c].calls < stub[c].fail
          THEN Codes(HTTP_UNAVAILABLE, CURLE_OK) ELSE Codes(HTTP_OK, CURLE_OK)}
    ELSE ThreadedCodes

\* what nanosleep may return to exponential_backoff
sleep_results(c) == IF Stubbed(c) THEN {0} ELSE NanosleepResults

\* the configuration curl_init leaves the threaded transfers with
GlobalsThreaded ==
    /\ HTTP_RETRY_CODES = <<HTTP_UNAVAILABLE>>
    /\ CURL_RETRY_CODES = <<CURLE_OPERATION_TIMEDOUT>>
    /\ N_HTTP_RETRY_CODES = 1
    /\ N_CURL_RETRY_CODES = 1

paramVars == <<op, datasize, nthreads, nblocks, nretry>>

sharedVars == <<credential, refreshed>>

\* thread t is at the head of the omp for loop with iteration i next: it
\* enters curl_writebytes_block_retry for block i, or has no iteration left
\* and waits at the barrier that ends the parallel region
loop_head(t, i) ==
    IF i < static_first(nblocks, nthreads, t + 1) THEN "perform" ELSE "barrier"

\* the upload: thread t enters the omp for loop
StartWrite(t) ==
    /\ mpc = "parallel" /\ op = "write" /\ pc[t] = "start"
    /\ iblock' = [iblock EXCEPT ![t] = static_first(nblocks, nthreads, t)]
    /\ iretry' = [iretry EXCEPT ![t] = 0]
    /\ pc' = [pc EXCEPT ![t] = loop_head(t, static_first(nblocks, nthreads, t))]
    /\ UNCHANGED <<paramVars, sharedVars, mpc, currentsize, pending, written,
                   thread_responsecode_http, thread_responsecode_curl, slot_set,
                   result, final, stub>>

\* the download: thread t computes its sub-range and enters
\* curl_readbytes_retry, whose first curl_readbytes sets currentsize = 0
StartRead(t) ==
    /\ mpc = "parallel" /\ op = "read" /\ pc[t] = "start"
    /\ iblock' = [iblock EXCEPT ![t] = t]
    /\ iretry' = [iretry EXCEPT ![t] = 0]
    /\ currentsize' = [currentsize EXCEPT ![t] = 0]
    /\ pc' = [pc EXCEPT ![t] = "perform"]
    /\ UNCHANGED <<paramVars, sharedVars, mpc, pending, written,
                   thread_responsecode_http, thread_responsecode_curl, slot_set,
                   result, final, stub>>

\* inside curl_easy_perform of curl_readbytes: libcurl has size*nmemb = n
\* bytes of body and calls write_callback_readdata; a return value other
\* than n makes libcurl abort the transfer with CURLE_WRITE_ERROR
WriteCallback(t) ==
    /\ mpc = "parallel" /\ op = "read" /\ pc[t] = "perform"
    /\ \E n \in 1..MaxDeliver :
         LET cb == write_callback_readdata(chunk_firstbyte(iblock[t]),
                       chunk_datasize(iblock[t]), currentsize[t], n)
         IN  /\ pending' = [pending EXCEPT ![t] = n]
             /\ currentsize' = [currentsize EXCEPT ![t] = cb.currentsize]
             /\ written' = [written EXCEPT ![t] = @ \cup cb.wrote]
             /\ pc' = [pc EXCEPT ![t] =
                          IF cb.ret = n THEN "perform" ELSE "write_error"]
    /\ UNCHANGED <<paramVars, sharedVars, mpc, iblock, iretry,
                   thread_responsecode_http, thread_responsecode_curl, slot_set,
                   result, final, stub>>

\* the wrapper returns rc to thread t, which stores it into its array
\* elements, the upload with MAX over what they hold, the download by plain
\* assignment; the upload then goes on to its next iteration
Record(t, rc) ==
    /\ thread_responsecode_http' = [thread_responsecode_http EXCEPT ![t] =
          IF op = "write" THEN keep_worst(rc.http, @) ELSE rc.http]
    /\ thread_responsecode_curl' = [thread_responsecode_curl EXCEPT ![t] =
          IF op = "write" THEN keep_worst(rc.curl, @) ELSE rc.curl]
    /\ slot_set' = [slot_set EXCEPT ![t] = TRUE]
    /\ final' = [final EXCEPT ![iblock[t]] =
          [done |-> TRUE, http |-> rc.http, curl |-> rc.curl]]
    /\ IF op = "write"
       THEN /\ iblock' = [iblock EXCEPT ![t] = @ + 1]
            /\ iretry' = [iretry EXCEPT ![t] = wrapper_entry_iretry(@)]
            /\ pc' = [pc EXCEPT ![t] = loop_head(t, iblock[t] + 1)]
       ELSE /\ pc' = [pc EXCEPT ![t] = "barrier"]
            /\ iretry' = [iretry EXCEPT ![t] = 0]
            /\ UNCHANGED iblock

\* curl_easy_perform returns and with it curl_writebytes_block or
\* curl_readbytes, and the wrapper finishes the iteration of its loop: it
\* breaks when isrestretrycode(responsecodes) == 0, else calls
\* exponential_backoff and breaks when that failed, else iretry++ and the
\* loop condition; out of the loop it returns responsecodes
AttemptEnd(t) ==
    /\ mpc = "parallel" /\ pc[t] \in {"perform", "write_error"}
    /\ \E e \in worker_effects(op, credential) :
         /\ credential' = e.cred
         /\ refreshed' = (refreshed \/ e.refreshed)
    /\ \E rc \in attempt_codes(iblock[t], pc[t] = "write_error") :
         IF isrestretrycode(ResponseCodes(rc.http, rc.curl, 0)) = 0
         THEN Record(t, rc)
         ELSE \E rv \in sleep_results(iblock[t]) :
                IF ~backoff_failed(rv) /\ loop_continues(next_iretry(iretry[t]), nretry)
                THEN /\ iretry' = [iretry EXCEPT ![t] = next_iretry(@)]
                     /\ pc' = [pc EXCEPT ![t] = "perform"]
                     /\ UNCHANGED <<iblock, thread_responsecode_http,
                                    thread_responsecode_curl, slot_set, final>>
                ELSE Record(t, rc)
    /\ currentsize' = [currentsize EXCEPT ![t] = 0]
    /\ pending' = [pending EXCEPT ![t] = 0]
    /\ stub' = IF Stubbed(iblock[t])
               THEN [stub EXCEPT ![iblock[t]].calls = @ + 1] ELSE stub
    /\ UNCHANGED <<paramVars, mpc, written, result>>

\* every thread of the team is at the barrier: the parallel region ends, the
\* calling thread folds the arrays with MAX from (200, CURLE_OK) and returns
Reduce ==
    /\ mpc = "parallel"
    /\ \A t \in team(nthreads) : pc[t] = "barrier"
    /\ \E garbage \in GarbageCodes :
         LET http == [t \in 0..(nthreads - 1) |->
                         IF slot_set[t] THEN thread_responsecode_http[t] ELSE garbage]
             curl == [t \in 0..(nthreads - 1) |->
                         IF slot_set[t] THEN thread_responsecode_curl[t] ELSE garbage]
         IN  result' = Codes(reduce_codes(HTTP_OK, http, first_thread(nthreads), nthreads),
                             reduce_codes(CURLE_OK, curl, first_thread(nthreads), nthreads))
    /\ mpc' = "returned"
    /\ UNCHANGED <<paramVars, sharedVars, pc, iblock, iretry,
                   currentsize, pending, written, thread_responsecode_http,
                   thread_responsecode_curl, slot_set, final, stub>>

BoInit ==
    /\ bo_i \in 0..MaxAttemptIndex
    /\ bo_retry_after \in RetryAfters
    /\ bo_pc = "call"
    /\ bo_rand = 0
    /\ bo_ts = [tv_sec |-> 0, tv_nsec |-> 0]
    /\ bo_rv = 0

BoIdle ==
    /\ bo_i = 0
    /\ bo_retry_after = 0
    /\ bo_pc = "call"
    /\ bo_rand = 0
    /\ bo_ts = [tv_sec |-> 0, tv_nsec |-> 0]
    /\ bo_rv = 0

\* exponential_backoff(i, retry_after): one rand(), one nanosleep
exponential_backoff ==
    /\ bo_pc = "call"
    /\ bo_pc' = "returned"
    /\ \E rnd \in RandDraws, rv \in NanosleepResults :
         /\ bo_rand' = rnd
         /\ bo_ts' = backoff_timespec(bo_i, bo_retry_after, rnd)
         /\ bo_rv' = rv
    /\ UNCHANGED <<bo_i, bo_retry_after>>

\* the credentials one call of curl_refresh_tokens is tried on
RefreshCredentials ==
    [bearer_token : {"B0"}, refresh_token : {"NULL", "R0"},
     client_secret : {"NULL", "S"},
     expiry : {0, GRACE - 1, GRACE, GRACE + 1, GRACE + MaxTime}]

NoTokenOutcome ==
    TokenOutcome(Outcome(NoStatus, NoCredential, FALSE), "fresh", 0, "NULL", FALSE)

RefreshInit ==
    /\ rf_pc = "call"
    /\ rf_cred \in RefreshCredentials
    /\ rf_now \in 0..MaxTime
    /\ rf_verbose \in {0, 1}
    /\ rf_out = NoTokenOutcome

RefreshIdle ==
    /\ rf_pc = "returned"
    /\ rf_cred = NoCredential
    /\ rf_now = 0
    /\ rf_verbose = 0
    /\ rf_out = NoTokenOutcome

\* one call of curl_refresh_tokens
RefreshCall ==
    /\ rf_pc = "call"
    /\ \E o \in curl_refresh_tokens(rf_cred, rf_now, rf_verbose) :
         /\ rf_out' = o
         /\ rf_pc' = IF o.crashed THEN "crashed" ELSE "returned"
    /\ UNCHANGED <<rf_cred, rf_now, rf_verbose>>

NoTick ==
    [called |-> FALSE,      \* progress_callback has been called
     before |-> ProgressStruct(0, 0, 0, 0),     \* the ProgressStruct it found
     time |-> 0,            \* what its first time(NULL) returned
     after |-> 0,           \* and its second, when it made one
     dlnow |-> 0, ulnow |-> 0,      \* its arguments
     ret |-> 0]             \* what it returned

\* the transfer functions set start_time = time(NULL), read_timeout from
\* their argument and dlprev = ulprev = 0 before curl_easy_perform
ProgressInit ==
    /\ pg_pc = "running"
    /\ pg_now = 0
    /\ \E read_timeout \in 0..MaxTime :
         pg_progressstruct = ProgressStruct(0, read_timeout, 0, 0)
    /\ pg_tick = NoTick
    /\ pg_stalled = FALSE
    /\ pg_last_increase = 0

ProgressIdle ==
    /\ pg_pc = "aborted"
    /\ pg_now = 0
    /\ pg_progressstruct = ProgressStruct(0, 0, 0, 0)
    /\ pg_tick = NoTick
    /\ pg_stalled = FALSE
    /\ pg_last_increase = 0

\* the clock values of a transfer: bytes move up to MaxTime, and a stalled
\* transfer is followed for as long as the longest read_timeout after that
MaxClock == MaxTime + MaxTime

\* libcurl calls progress_callback; a non-zero return aborts the transfer.
\* The clock does not run backwards, and the counters of one transfer do not
\* decrease; those of a stalled transfer stay as they are.
ProgressTick ==
    /\ pg_pc = "running"
    /\ \E now1 \in pg_now..(IF pg_stalled THEN MaxClock ELSE MaxTime),
          dlnow \in pg_tick.dlnow..(IF pg_stalled THEN pg_tick.dlnow ELSE MaxBytes),
          ulnow \in pg_tick.ulnow..(IF pg_stalled THEN pg_tick.ulnow ELSE MaxBytes) :
         \E now2 \in now1..(IF pg_stalled THEN MaxClock ELSE MaxTime) :
            LET r == progress_callback(pg_progressstruct, now1, now2, dlnow, ulnow)
                read_again == r.ret = 0 /\ r.progressstruct # pg_progressstruct
            IN  /\ read_again \/ now2 = now1
                /\ pg_now' = now2
                /\ pg_progressstruct' = r.progressstruct
                /\ pg_pc' = IF r.ret # 0 THEN "aborted" ELSE "running"
                /\ pg_tick' = [called |-> TRUE, before |-> pg_progressstruct,
                               time |-> now1, after |-> now2,
                               dlnow |-> dlnow, ulnow |-> ulnow, ret |-> r.ret]
                /\ pg_last_increase' =
                      IF r.ret = 0 /\ (dlnow > pg_tick.dlnow \/ ulnow > pg_tick.ulnow)
                      THEN now2 ELSE pg_last_increase
    /\ UNCHANGED pg_stalled

\* the connection stays open and stops moving bytes
ProgressStall ==
    /\ pg_pc = "running" /\ ~pg_stalled
    /\ pg_stalled' = TRUE
    /\ UNCHANGED <<pg_pc, pg_progressstruct, pg_now, pg_tick, pg_last_increase>>

(***************************************************************************)
(* One call of update_tokens_from_refresh_token on the body of a token     *)
(* response.                                                               *)
(***************************************************************************)
Quoted(str) == <<QUOTE>> \o str \o <<QUOTE>>

\* the values a body carries for the three fields
BearerValues == {<<"A", "A", "A">>, <<"e", "y">>}
RefreshValues == {<<"B", "B", "B">>}
ExpiryValues == {<<"1", "2", "3", "4", "5", "6">>, <<"7">>}

\* what stands between a name and its value
Separators == {<<":">>, <<":", " ">>}

\* fields the parser does not know: one with a quoted value, one with a
\* number, one with an object
OtherFields ==
    {Quoted(<<"t", "y", "p", "e">>) \o <<":">> \o Quoted(<<"B", "e", "a", "r", "e", "r">>),
     Quoted(<<"e", "x", "p", "i", "r", "e", "s", "_", "i", "n">>) \o <<":", "3", "5", "9", "9">>,
     Quoted(<<"e", "x", "t">>) \o <<":", "{">> \o Quoted(<<"i", "d">>) \o <<":">> \o Quoted(<<"x">>) \o <<"}">>}

RECURSIVE JoinFields(_)
JoinFields(fs) ==
    IF Len(fs) = 0 THEN <<>>
    ELSE IF Len(fs) = 1 THEN fs[1]
    ELSE fs[1] \o <<",">> \o JoinFields(Tail(fs))

\* the bodies: an object with the three fields and up to MaxOtherFields other
\* fields, in every order
TokenResponseBodies ==
    UNION {
      UNION {
        LET known == {ACCESS_TOKEN \o sep \o Quoted(f.bearer),
                      REFRESH_TOKEN \o sep \o Quoted(f.refresh),
                      EXPIRES_ON \o sep \o Quoted(f.expires)}
        IN  {[data |-> <<"{">> \o JoinFields(order) \o <<"}">>, fields |-> f] :
                order \in UNION {
                   {o \in [1..(3 + n) -> known \cup OtherFields] :
                       /\ \A i, j \in 1..(3 + n) : o[i] = o[j] => i = j
                       /\ known \subseteq {o[i] : i \in 1..(3 + n)}} :
                   n \in 0..MaxOtherFields}} :
        sep \in Separators} :
      f \in [bearer : BearerValues, refresh : RefreshValues, expires : ExpiryValues]}

NoFields == [bearer |-> <<>>, refresh |-> <<>>, expires |-> <<>>]

\* the caller's buffers hold the old credential when the function is called
ParseInit ==
    /\ ps_pc = "scan"
    /\ \E b \in TokenResponseBodies :
         /\ ps_data = b.data
         /\ ps_fields = b.fields
    /\ ps_counter = 0
    /\ ps_bearer_token = <<"o", "l", "d">>
    /\ ps_refresh_token = <<"o", "l", "d">>
    /\ ps_expiry = 0

ParseIdle ==
    /\ ps_pc = "done"
    /\ ps_data = <<>>
    /\ ps_fields = NoFields
    /\ ps_counter = 0
    /\ ps_bearer_token = <<>>
    /\ ps_refresh_token = <<>>
    /\ ps_expiry = 0

(***************************************************************************)
(* One thread of curl_readbytes_retry_threaded with the bytes of its       *)
(* sub-range: curl_readbytes_retry, curl_readbytes and the deliveries to   *)
(* write_callback_readdata.                                                *)
(***************************************************************************)
\* datastruct.currentsize = 0 at the start of every curl_readbytes
attempt_entry_currentsize_stale(previous) == previous

attempt_entry_currentsize(previous) == 0

rd_firstbyte == thread_firstbyte(rd_args.datasize, rd_args.nthreads, rd_args.threadid)

rd_size == _thread_datasize(rd_args.datasize, rd_args.nthreads, rd_args.threadid)

NoByte == [attempt |-> 0, byte |-> 0]

ReadInit ==
    /\ rd_args \in {a \in [datasize : 0..MaxDataSize, nthreads : 1..MaxThreads,
                            threadid : 0..(MaxThreads - 1),
                            nretry : 1..MaxThreadedRetry] :
                        a.threadid < a.nthreads}
    /\ rd_pc = "call"
    /\ rd_iretry = 0
    /\ rd_currentsize = 0
    /\ rd_delivered = 0
    /\ rd_data = [i \in 0..(rd_size - 1) |-> NoByte]
    /\ rd_stale = 0
    /\ rd_excess = FALSE
    /\ rd_overrun = FALSE
    /\ rd_status = Codes(0, 0)

ReadIdle ==
    /\ rd_args = [datasize |-> 0, nthreads |-> 1, threadid |-> 0, nretry |-> 1]
    /\ rd_pc = "done"
    /\ rd_iretry = 0
    /\ rd_currentsize = 0
    /\ rd_delivered = 0
    /\ rd_data = <<>>
    /\ rd_stale = 0
    /\ rd_excess = FALSE
    /\ rd_overrun = FALSE
    /\ rd_status = Codes(0, 0)

\* curl_readbytes up to curl_easy_perform
ReadAttemptStart ==
    /\ rd_pc = "call"
    /\ rd_currentsize' = attempt_entry_currentsize(rd_currentsize)
    /\ rd_delivered' = 0
    /\ rd_pc' = "perform"
    /\ UNCHANGED <<rd_args, rd_iretry, rd_data, rd_stale, rd_excess, rd_overrun,
                   rd_status>>

\* libcurl has n more bytes of the body and calls write_callback_readdata,
\* which copies them to data + currentsize or refuses them
ReadDeliver ==
    /\ rd_pc = "perform"
    /\ \E n \in 1..MaxDeliver :
         LET cb == write_callback_readdata(rd_firstbyte, rd_size, rd_currentsize, n)
         IN  /\ rd_currentsize' = cb.currentsize
             /\ rd_delivered' = rd_delivered + n
             /\ rd_excess' = (rd_excess \/ rd_delivered + n > rd_size)
             /\ rd_overrun' = (rd_overrun \/ cb.ret # n)
             /\ rd_pc' = IF cb.ret = n THEN "perform" ELSE "write_error"
             /\ rd_data' = [i \in DOMAIN rd_data |->
                    IF rd_firstbyte + i \in cb.wrote
                    THEN [attempt |-> rd_iretry + 1,
                          byte |-> rd_delivered + (i - rd_currentsize)]
                    ELSE rd_data[i]]
    /\ UNCHANGED <<rd_args, rd_iretry, rd_stale, rd_status>>

\* curl_easy_perform and curl_readbytes return, and curl_readbytes_retry
\* finishes the iteration of its loop
ReadAttemptEnd ==
    /\ rd_pc \in {"perform", "write_error"}
    /\ \E rc \in (IF rd_pc = "write_error" THEN WriteErrorCodes ELSE ThreadedCodes) :
         /\ rd_status' = rc
         /\ IF isrestretrycode(ResponseCodes(rc.http, rc.curl, 0)) = 0
            THEN rd_pc' = "done" /\ UNCHANGED <<rd_iretry, rd_stale>>
            ELSE \E rv \in NanosleepResults :
                   IF ~backoff_failed(rv) /\ loop_continues(rd_iretry + 1, rd_args.nretry)
                   THEN /\ rd_pc' = "call"
                        /\ rd_iretry' = rd_iretry + 1
                        /\ rd_stale' = MAX(rd_stale, rd_currentsize)
                   ELSE rd_pc' = "done" /\ UNCHANGED <<rd_iretry, rd_stale>>
    /\ UNCHANGED <<rd_args, rd_currentsize, rd_delivered, rd_data, rd_excess,
                   rd_overrun>>

MoreIdle == ParseIdle /\ ReadIdle

\* one iteration of while (counter < strlen(data)), or the end of the loop
ParseStep ==
    /\ ps_pc = "scan"
    /\ LET _data == string_from(ps_data, ps_counter)
           marker == IF strncmp_equal(_data, ACCESS_TOKEN) THEN ACCESS_TOKEN
                     ELSE IF strncmp_equal(_data, REFRESH_TOKEN) THEN REFRESH_TOKEN
                     ELSE IF strncmp_equal(_data, EXPIRES_ON) THEN EXPIRES_ON
                     ELSE <<>>
           q == get_next_quoted_string(string_from(_data, Len(marker)))
       IN  IF ~(ps_counter < Len(ps_data))
           THEN /\ ps_pc' = "done"
                /\ UNCHANGED <<ps_counter, ps_bearer_token, ps_refresh_token, ps_expiry>>
           ELSE IF marker = <<>>
           THEN /\ ps_counter' = ps_counter + 1
                /\ UNCHANGED <<ps_pc, ps_bearer_token, ps_refresh_token, ps_expiry>>
           ELSE /\ ps_counter' = ps_counter + Len(marker)
                /\ ps_pc' = IF q.crashed THEN "crashed" ELSE "scan"
                /\ ps_bearer_token' =
                      IF marker = ACCESS_TOKEN THEN q.value ELSE ps_bearer_token
                /\ ps_refresh_token' =
                      IF marker = REFRESH_TOKEN THEN q.value ELSE ps_refresh_token
                /\ ps_expiry' =
                      IF marker = EXPIRES_ON THEN sscanf_lu(q.value, ps_expiry)
                      ELSE ps_expiry
    /\ UNCHANGED <<ps_data, ps_fields>>

PlanInit ==
    /\ p_datasize \in 0..MaxPlanSize
    /\ p_nblocks \in 1..MaxPlanBlocks
    /\ p_plan = <<>>

PlanIdle ==
    /\ p_datasize = 0
    /\ p_nblocks = 1
    /\ p_plan = <<>>

\* one iteration of the loop over iblock (the iterations in index order)
PlanBlock ==
    /\ Len(p_plan) < p_nblocks
    /\ LET i == Len(p_plan)
       IN  p_plan' = Append(p_plan,
                [firstbyte |-> block_firstbyte(p_datasize, p_nblocks, i),
                 datasize  |-> _block_datasize(p_datasize, p_nblocks, i)])
    /\ UNCHANGED <<p_datasize, p_nblocks>>

(***************************************************************************)
(* Specifications.                                                         *)
(***************************************************************************)
\* the block plan, for every datasize and nblocks within the bounds
PlanNext ==
    PlanBlock /\ UNCHANGED <<globalVars, rcVars, boVars, retryVars, threadVars,
                              refreshVars, progressVars, moreVars>>

InitPlan ==
    PlanInit /\ GlobalsInit /\ RcIdle /\ BoIdle /\ RetryIdle /\ ThreadIdle
        /\ RefreshIdle /\ ProgressIdle /\ MoreIdle

SpecPlan == InitPlan /\ [][PlanNext]_vars

\* the retry classification under every configuration of the tables
RcNext ==
    \/ RcConfigure /\ UNCHANGED <<boVars, retryVars, threadVars, planVars, refreshVars, progressVars, moreVars>>
    \/ RcClassify /\ UNCHANGED <<boVars, retryVars, threadVars, planVars, refreshVars, progressVars, moreVars>>

InitRetryCode ==
    GlobalsInit /\ RcInit /\ BoIdle /\ RetryIdle /\ ThreadIdle /\ PlanIdle
        /\ RefreshIdle /\ ProgressIdle /\ MoreIdle

SpecRetryCode == InitRetryCode /\ [][RcNext]_vars

\* one call of exponential_backoff for every i and retry_after within the bounds
BoNext ==
    exponential_backoff /\ UNCHANGED <<globalVars, rcVars, retryVars, threadVars,
                                        planVars, refreshVars, progressVars, moreVars>>

InitBackoff ==
    GlobalsInit /\ RcIdle /\ BoInit /\ RetryIdle /\ ThreadIdle /\ PlanIdle
        /\ RefreshIdle /\ ProgressIdle /\ MoreIdle

SpecBackoff == InitBackoff /\ [][BoNext]_vars

\* one call of a retry wrapper, for every wrapper, nretry, verbose and
\* configuration within the bounds
RetryNext ==
    \/ RetryInvoke /\ UNCHANGED <<globalVars, rcVars, boVars, threadVars, planVars, refreshVars, progressVars, moreVars>>
    \/ RetryClassify /\ UNCHANGED <<globalVars, rcVars, boVars, threadVars, planVars, refreshVars, progressVars, moreVars>>
    \/ RetryBackoff /\ UNCHANGED <<globalVars, rcVars, boVars, threadVars, planVars, refreshVars, progressVars, moreVars>>

InitRetry ==
    GlobalsConfigured /\ RcIdle /\ BoIdle /\ RetryInit /\ ThreadIdle /\ PlanIdle
        /\ RefreshIdle /\ ProgressIdle /\ MoreIdle

SpecRetry == InitRetry /\ [][RetryNext]_vars

\* one threaded upload or download, for every argument and configuration
\* within the bounds and every interleaving of the threads
Init ==
    GlobalsThreaded /\ RcIdle /\ BoIdle /\ RetryIdle /\ ThreadInit /\ PlanIdle
        /\ RefreshIdle /\ ProgressIdle /\ MoreIdle

ThreadStep(t) ==
    \/ StartWrite(t)
    \/ StartRead(t)
    \/ WriteCallback(t)
    \/ AttemptEnd(t)

Next ==
    \/ (\E t \in team(nthreads) : ThreadStep(t))
          /\ UNCHANGED <<globalVars, rcVars, boVars, retryVars, planVars, refreshVars, progressVars, moreVars>>
    \/ Reduce /\ UNCHANGED <<globalVars, rcVars, boVars, retryVars, planVars, refreshVars, progressVars, moreVars>>

Spec == Init /\ [][Next]_vars

\* the same transfer with every thread of the team scheduled again and again
\* while it has a step to take, every curl_easy_perform and nanosleep
\* returning, and the calling thread going on once the region has ended
InitLive ==
    GlobalsThreaded /\ RcIdle /\ BoIdle /\ RetryIdle /\ LiveInit /\ PlanIdle
        /\ RefreshIdle /\ ProgressIdle /\ MoreIdle

SpecLive ==
    /\ InitLive
    /\ [][Next]_vars
    /\ \A t \in 0..(MaxThreads - 1) :
          WF_threadVars(t \in team(nthreads) /\ ThreadStep(t))
    /\ WF_threadVars(Reduce)

\* one threaded upload or download over the stub, for every number of
\* failures of each chunk within the bounds and every interleaving
InitStub ==
    GlobalsThreaded /\ RcIdle /\ BoIdle /\ RetryIdle /\ StubInit /\ PlanIdle
        /\ RefreshIdle /\ ProgressIdle /\ MoreIdle

StubStep(t) ==
    \/ StartWrite(t)
    \/ StartRead(t)
    \/ AttemptEnd(t)

StubNext ==
    \/ (\E t \in team(nthreads) : StubStep(t))
          /\ UNCHANGED <<globalVars, rcVars, boVars, retryVars, planVars,
                         refreshVars, progressVars, moreVars>>
    \/ Reduce /\ UNCHANGED <<globalVars, rcVars, boVars, retryVars, planVars,
                              refreshVars, progressVars, moreVars>>

SpecStub == InitStub /\ [][StubNext]_vars

\* one call of curl_refresh_tokens, for every credential, clock value and
\* verbose within the bounds
RefreshNext ==
    RefreshCall /\ UNCHANGED <<globalVars, rcVars, boVars, retryVars, threadVars,
                                planVars, progressVars, moreVars>>

InitRefresh ==
    GlobalsInit /\ RcIdle /\ BoIdle /\ RetryIdle /\ ThreadIdle /\ PlanIdle
        /\ RefreshInit /\ ProgressIdle /\ MoreIdle

SpecRefresh == InitRefresh /\ [][RefreshNext]_vars

\* the calls of progress_callback during one transfer, for every read_timeout,
\* clock and pair of counters within the bounds
ProgressNext ==
    ProgressTick /\ UNCHANGED <<globalVars, rcVars, boVars, retryVars, threadVars,
                                 planVars, refreshVars, moreVars>>

InitProgress ==
    GlobalsInit /\ RcIdle /\ BoIdle /\ RetryIdle /\ ThreadIdle /\ PlanIdle
        /\ RefreshIdle /\ ProgressInit /\ MoreIdle

SpecProgress == InitProgress /\ [][ProgressNext]_vars

\* a transfer that may stall for good; while it is stalled libcurl keeps
\* calling progress_callback and the clock keeps advancing
ProgressLiveNext ==
    \/ ProgressTick /\ UNCHANGED <<globalVars, rcVars, boVars, retryVars, threadVars,
                                    planVars, refreshVars, moreVars>>
    \/ ProgressStall /\ UNCHANGED <<globalVars, rcVars, boVars, retryVars, threadVars,
                                     planVars, refreshVars, moreVars>>

SpecProgressLive ==
    /\ InitProgress
    /\ [][ProgressLiveNext]_vars
    /\ WF_pg_now(ProgressTick /\ pg_stalled /\ pg_now' > pg_now)

\* one call of update_tokens_from_refresh_token, for every body within the
\* bounds
ParseNext ==
    ParseStep /\ UNCHANGED <<globalVars, rcVars, boVars, retryVars, threadVars,
                              planVars, refreshVars, progressVars, readVars>>

InitParse ==
    GlobalsInit /\ RcIdle /\ BoIdle /\ RetryIdle /\ ThreadIdle /\ PlanIdle
        /\ RefreshIdle /\ ProgressIdle /\ ParseInit /\ ReadIdle

SpecParse == InitParse /\ [][ParseNext]_vars

\* one thread of a threaded download, for every sub-range, every sequence of
\* deliveries and every status within the bounds
ReadNext ==
    \/ ReadAttemptStart /\ UNCHANGED <<globalVars, rcVars, boVars, retryVars, threadVars,
                                        planVars, refreshVars, progressVars, parseVars>>
    \/ ReadDeliver /\ UNCHANGED <<globalVars, rcVars, boVars, retryVars, threadVars,
                                   planVars, refreshVars, progressVars, parseVars>>
    \/ ReadAttemptEnd /\ UNCHANGED <<globalVars, rcVars, boVars, retryVars, threadVars,
                                      planVars, refreshVars, progressVars, parseVars>>

InitRead ==
    GlobalsThreaded /\ RcIdle /\ BoIdle /\ RetryIdle /\ ThreadIdle /\ PlanIdle
        /\ RefreshIdle /\ ProgressIdle /\ ParseIdle /\ ReadInit

SpecRead == InitRead /\ [][ReadNext]_vars

(***************************************************************************)
(* The claims.                                                             *)
(***************************************************************************)
RECURSIVE SumSizes(_)
SumSizes(plan) ==
    IF plan = <<>> THEN 0
    ELSE plan[Len(plan)].datasize + SumSizes(SubSeq(plan, 1, Len(plan) - 1))

BlockBytes(b) == b.firstbyte .. (b.firstbyte + b.datasize - 1)

PlanComplete == Len(p_plan) = p_nblocks

\* C1: the block plan is nblocks ranges, contiguous from offset 0 with
\* non-decreasing offsets, each of length floor(datasize/nblocks) or one more,
\* the larger length on exactly the first (datasize mod nblocks) blocks; the
\* lengths sum to datasize and every byte of [0, datasize) lies in exactly
\* one block.
C1_BlockPlanPartition ==
    LET q == p_datasize \div p_nblocks
        r == p_datasize % p_nblocks
    IN  /\ Len(p_plan) > 0 => p_plan[1].firstbyte = 0
        /\ \A k \in 1..Len(p_plan) :
              /\ p_plan[k].datasize \in {q, q + 1}
              /\ (p_plan[k].datasize = q + 1) <=> (k - 1 < r)
              /\ k > 1 => /\ p_plan[k].firstbyte =
                                p_plan[k-1].firstbyte + p_plan[k-1].datasize
                          /\ p_plan[k].firstbyte >= p_plan[k-1].firstbyte
        /\ PlanComplete =>
              /\ SumSizes(p_plan) = p_datasize
              /\ Cardinality({k \in 1..Len(p_plan) : p_plan[k].datasize = q + 1}) = r
              /\ \A b \in 0..(p_datasize - 1) :
                    Cardinality({k \in 1..Len(p_plan) : b \in BlockBytes(p_plan[k])}) = 1
              /\ \A k \in 1..Len(p_plan) :
                    BlockBytes(p_plan[k]) \subseteq 0..(p_datasize - 1)

C1_Witness ==
    /\ PlanComplete
    /\ p_nblocks >= 3
    /\ p_datasize % p_nblocks = 2
    /\ p_datasize > p_nblocks

ThreadBytes(t) ==
    thread_firstbyte(datasize, nthreads, t) ..
        (thread_firstbyte(datasize, nthreads, t)
            + _thread_datasize(datasize, nthreads, t) - 1)

\* C2: in curl_readbytes_retry_threaded, in every interleaving and across all
\* retry attempts, every byte a thread writes into the caller's buffer lies
\* in that thread's own sub-range; the sub-ranges of distinct threads are
\* pairwise disjoint and their union is [0, datasize), so no byte is written
\* by two threads.
C2_ReadersWriteOwnRange ==
    (op = "read" /\ mpc = "parallel") =>
        /\ \A t \in team(nthreads) : written[t] \subseteq ThreadBytes(t)
        /\ \A t, u \in team(nthreads) :
              t # u => /\ ThreadBytes(t) \cap ThreadBytes(u) = {}
                       /\ written[t] \cap written[u] = {}
        /\ UNION {ThreadBytes(t) : t \in team(nthreads)} = 0..(datasize - 1)

C2_Witness ==
    /\ op = "read" /\ mpc = "parallel"
    /\ nthreads >= 2
    /\ datasize % nthreads # 0
    /\ \A t \in team(nthreads) : written[t] = ThreadBytes(t) /\ written[t] # {}
    /\ \E t \in team(nthreads) :
          iretry[t] >= 1 /\ currentsize[t] >= 1 /\ pc[t] = "perform"

\* C3: a delivery of n bytes with currentsize + n > datasize makes
\* write_callback_readdata fail the transfer, and neither the caller's buffer
\* nor currentsize changes, not even by the part that would fit; a delivery
\* is refused only then.
C3_OverrunFailsFast ==
    [][\A t \in team(nthreads) :
          (op = "read" /\ mpc = "parallel" /\ pc[t] = "perform") =>
              /\ pc'[t] = "write_error" =>
                    /\ currentsize[t] + pending'[t] > chunk_datasize(iblock[t])
                    /\ currentsize'[t] = currentsize[t]
                    /\ written'[t] = written[t]
              /\ (pc'[t] = "perform" /\ iretry'[t] = iretry[t]
                     /\ currentsize'[t] # currentsize[t]) =>
                    /\ currentsize[t] + pending'[t] <= chunk_datasize(iblock[t])
                    /\ currentsize'[t] = currentsize[t] + pending'[t]]_vars

C3_Witness ==
    /\ op = "read" /\ mpc = "parallel"
    /\ \E t \in team(nthreads) :
          /\ pc[t] = "write_error"
          /\ currentsize[t] >= 1
          /\ currentsize[t] < chunk_datasize(iblock[t])
          /\ currentsize[t] + pending[t] > chunk_datasize(iblock[t])
          /\ Cardinality(written[t]) = currentsize[t]

SetMax(S) == CHOOSE m \in S : \A x \in S : x <= m

AllChunks == 0..(nchunks - 1)

\* the blocks the omp for loop gives thread t that have got their final status
BlocksDoneBy(t) ==
    {c \in AllChunks : /\ static_first(nblocks, nthreads, t) <= c
                       /\ c < static_first(nblocks, nthreads, t + 1)
                       /\ final[c].done}

\* C4: the status a threaded transfer returns is, on the http axis and on the
\* curl axis independently, the maximum of the final status of every chunk
\* and the baseline (200, CURLE_OK); in the upload the array element of a
\* thread holds the maximum over the blocks it has finished, so a later
\* successful block does not erase an earlier failure.
C4_ResultIsElementwiseMax ==
    /\ mpc = "returned" /\ pc # <<>> =>
          /\ \A c \in AllChunks : final[c].done
          /\ result.http = SetMax({HTTP_OK} \cup {final[c].http : c \in AllChunks})
          /\ result.curl = SetMax({CURLE_OK} \cup {final[c].curl : c \in AllChunks})
    /\ op = "write" /\ pc # <<>> =>
          \A t \in team(nthreads) :
             /\ thread_responsecode_http[t] =
                   SetMax({HTTP_OK} \cup {final[c].http : c \in BlocksDoneBy(t)})
             /\ thread_responsecode_curl[t] =
                   SetMax({CURLE_OK} \cup {final[c].curl : c \in BlocksDoneBy(t)})

C4_Witness ==
    /\ mpc = "returned" /\ op = "write"
    /\ nthreads = 1 /\ nblocks = 2
    /\ final[0] = [done |-> TRUE, http |-> HTTP_UNAVAILABLE, curl |-> CURLE_OK]
    /\ final[1] = [done |-> TRUE, http |-> HTTP_OK, curl |-> CURLE_OK]
    /\ result = Codes(HTTP_UNAVAILABLE, CURLE_OK)

\* C5: the status a threaded transfer returns is (200, CURLE_OK) if and only
\* if the final status of every chunk is (200, CURLE_OK).
C5_SuccessIffEveryChunkSucceeded ==
    (mpc = "returned" /\ pc # <<>>) =>
        ((result = Codes(HTTP_OK, CURLE_OK))
            <=> (\A c \in AllChunks :
                    final[c].http = HTTP_OK /\ final[c].curl = CURLE_OK))

HttpRetrySet == {HTTP_RETRY_CODES[k] : k \in 1..N_HTTP_RETRY_CODES}
CurlRetrySet == {CURL_RETRY_CODES[k] : k \in 1..N_CURL_RETRY_CODES}

\* C6: isrestretrycode returns 1 exactly when the curl code is in the
\* configured curl retry set or the http code is in the configured http retry
\* set, and 0 otherwise, whatever retry_after is; with both sets empty it
\* returns 0.
C6_RetryCodeInclusiveOr ==
    rc_pc = "returned" =>
        /\ rc_result \in {0, 1}
        /\ (rc_result = 1) <=> (\/ rc_status.curl \in CurlRetrySet
                                \/ rc_status.http \in HttpRetrySet)
        /\ (HttpRetrySet = {} /\ CurlRetrySet = {}) => rc_result = 0

C6_Witness ==
    /\ rc_pc = "returned"
    /\ rc_result = 1
    /\ rc_status.http \in HttpRetrySet
    /\ rc_status.curl \notin CurlRetrySet
    /\ CurlRetrySet # {}
    /\ rc_status.retry_after # 0

\* the interval [lo, lo + 1) seconds, for a timespec
InSecondFrom(ts, lo) ==
    /\ ts.tv_nsec \in 0..(NANO - 1)
    /\ ts.tv_sec = lo

\* C10: for every attempt index i and every rand() in 0..RAND_MAX, the
\* duration exponential_backoff requests lies in [min(2^i,256), min(2^i,256)+1)
\* seconds when retry_after is 0, and in [r, r+1) seconds when retry_after is
\* r > 0.
C10_BackoffHalfOpenInterval ==
    bo_pc = "returned" =>
        /\ bo_retry_after = 0 =>
              InSecondFrom(bo_ts, IF bo_i >= 8 THEN 256 ELSE 2 ^ bo_i)
        /\ bo_retry_after > 0 => InSecondFrom(bo_ts, bo_retry_after)

\* the same with the draw rand() = RAND_MAX left out
C10_BackoffBelowRandMax ==
    (bo_pc = "returned" /\ bo_rand # RAND_MAX) =>
        /\ bo_retry_after = 0 =>
              InSecondFrom(bo_ts, IF bo_i >= 8 THEN 256 ELSE 2 ^ bo_i)
        /\ bo_retry_after > 0 => InSecondFrom(bo_ts, bo_retry_after)

\* C7: a retry wrapper calls the wrapped operation at least once and at most
\* nretry times, never again after a status outside the retry sets, exactly
\* nretry times when every status was in a retry set and every sleep
\* succeeded, and returns the status of its last call.
C7_RetryAttemptsAndResult ==
    /\ r_hist.attempts <= r_nretry
    /\ r_hist.earlier_retryable
    /\ r_pc = "done" =>
          /\ r_hist.attempts >= 1
          /\ r_returned = r_hist.last
          /\ (InRetrySets(r_hist.last) /\ ~r_hist.sleep_failed) =>
                r_hist.attempts = r_nretry

C7_Witness ==
    /\ r_pc = "done"
    /\ r_nretry >= 3
    /\ r_hist.attempts = r_nretry
    /\ InRetrySets(r_hist.last)
    /\ ~r_hist.sleep_failed

\* C8: when the attempt with index nretry-1 returns a retryable status the
\* wrapper stops without a warning and without a sleep: an exhausted loop has
\* slept (and warned, when verbose) exactly nretry-1 times, and every sleep
\* was followed by another attempt.
C8_NoSleepAfterLastAttempt ==
    (r_pc = "done" /\ r_hist.attempts = r_nretry /\ InRetrySets(r_hist.last)) =>
        /\ r_hist.sleeps = r_nretry - 1
        /\ r_hist.sleeps < r_hist.attempts
        /\ r_verbose > 0 => r_hist.warnings = r_nretry - 1

\* C9: once exponential_backoff has returned non-zero the wrapper has returned
\* (it is not retrying and has not crashed), the failed sleep was the one
\* after its last attempt, and it returned the status of that attempt.
C9_SleepFailureStops ==
    r_hist.sleep_failed =>
        /\ r_pc = "done"
        /\ r_returned = r_hist.last
        /\ r_hist.sleeps = r_hist.attempts

C9_Witness ==
    /\ r_hist.sleep_failed
    /\ r_pc = "done"
    /\ r_hist.attempts = 2
    /\ r_nretry >= 3

RefreshCalled == rf_pc # "call"

TokenRequestFailed(o) ==
    o.requests = 1 /\ (o.responsecodes.curl # CURLE_OK \/ o.responsecodes.http >= 300)

\* C11: one call of curl_refresh_tokens is a no-op (no token request, the
\* credential unchanged, (200, CURLE_OK) returned) if and only if
\* now < expiry - 600 in integer arithmetic, for every expiry including those
\* below 600.
C11_FreshIffBeforeGraceBoundary ==
    RefreshCalled =>
        ((/\ rf_out.requests = 0
          /\ rf_out.cred = rf_cred
          /\ ~rf_out.crashed
          /\ rf_out.responsecodes.http = HTTP_OK
          /\ rf_out.responsecodes.curl = CURLE_OK)
         <=> rf_now < rf_cred.expiry - GRACE)

\* C12: a needed refresh takes the refresh-token flow whenever refresh_token
\* is present, the client-credentials flow exactly when refresh_token is
\* absent and client_secret present, and no flow when both are absent; the
\* client-credentials flow leaves refresh_token as it was.
C12_FlowFromCredentialShape ==
    (RefreshCalled /\ rf_out.flow # "fresh") =>
        /\ rf_out.flow \in {"refresh_token", "client_credentials", "unable"}
        /\ (rf_out.flow = "refresh_token") <=> (rf_cred.refresh_token # "NULL")
        /\ (rf_out.flow = "client_credentials") <=>
              (rf_cred.refresh_token = "NULL" /\ rf_cred.client_secret # "NULL")
        /\ (rf_out.flow = "unable") <=>
              (rf_cred.refresh_token = "NULL" /\ rf_cred.client_secret = "NULL")
        /\ (rf_out.flow = "unable") <=> (rf_out.requests = 0)
        /\ rf_out.flow = "client_credentials" =>
              rf_out.cred.refresh_token = rf_cred.refresh_token

C12_Witness ==
    /\ rf_pc = "returned"
    /\ rf_out.flow = "refresh_token"
    /\ rf_cred.client_secret # "NULL"
    /\ rf_out.cred.refresh_token = "R1"

\* C13: a needed refresh of a credential with neither refresh token nor
\* client secret makes no token request, leaves the credential unchanged and
\* returns (1000, 1000, 0), which is not success and is no status a token
\* request can end with.
C13_UnableReturnsSentinel ==
    (RefreshCalled /\ ~within_grace(rf_now, rf_cred.expiry)
        /\ rf_cred.refresh_token = "NULL" /\ rf_cred.client_secret = "NULL") =>
        /\ rf_pc = "returned"
        /\ rf_out.requests = 0
        /\ rf_out.cred = rf_cred
        /\ rf_out.responsecodes = ResponseCodes(SENTINEL, SENTINEL, 0)
        /\ rf_out.responsecodes.http # HTTP_OK
        /\ rf_out.responsecodes.curl # CURLE_OK
        /\ \A hc \in TransportCodes :
              rf_out.responsecodes.http # hc[1] /\ rf_out.responsecodes.curl # hc[2]

C13_Witness ==
    /\ rf_pc = "returned"
    /\ rf_out.flow = "unable"
    /\ rf_cred.expiry = GRACE + 1
    /\ rf_now = 1

\* C15: in both flows and for every verbose, after a failed token request
\* (curl code not CURLE_OK or http code >= 300) the body is not parsed and
\* the credential is as it was before the call.
C15_FailedRequestLeavesCredential ==
    (RefreshCalled /\ TokenRequestFailed(rf_out)) =>
        /\ ~rf_out.parsed
        /\ ~rf_out.crashed
        /\ rf_out.cred = rf_cred

\* what a caller can observe of a call: the status, the credential it leaves
\* and whether it returned at all
Observable(o) ==
    [responsecodes |-> o.responsecodes, cred |-> o.cred, crashed |-> o.crashed,
     requests |-> o.requests]

\* C20: a call with the other value of verbose that gets the same response
\* to its token request does the same: same status, same credential.
C20_VerboseDoesNotAlterRefresh ==
    RefreshCalled =>
        \E o \in curl_refresh_tokens(rf_cred, rf_now, 1 - rf_verbose) :
            /\ o.body = rf_out.body
            /\ o.responsecodes = rf_out.responsecodes
            /\ Observable(o) = Observable(rf_out)

TickMoved ==
    \/ pg_tick.dlnow # pg_tick.before.dlprev
    \/ pg_tick.ulnow # pg_tick.before.ulprev

TickElapsed == pg_tick.time - pg_tick.before.start_time

\* C16: a call of progress_callback returns 1 if and only if neither counter
\* differs from its baseline and the time since the last increase is at
\* least read_timeout; a call on which a counter moved returns 0 and sets the
\* baseline counters and the timer to the current values.
C16_AbortIffStalledPastTimeout ==
    pg_tick.called =>
        /\ (pg_tick.ret = 1) <=>
              (~TickMoved /\ TickElapsed >= pg_tick.before.read_timeout)
        /\ TickMoved =>
              /\ pg_tick.ret = 0
              /\ pg_progressstruct =
                    ProgressStruct(pg_tick.after, pg_tick.before.read_timeout,
                                   pg_tick.dlnow, pg_tick.ulnow)

\* the status in hand is the overrun error of curl_readbytes
OverrunError ==
    r_kind = "read" /\ r_hist.attempts > 0 /\ r_responsecodes.curl = CURLE_WRITE_ERROR

\* the status in hand is the configuration error of curl_refresh_tokens
ConfigurationError ==
    r_kind = "refresh" /\ r_hist.attempts > 0 /\ r_responsecodes = unable_status

\* C14: under every configuration of the retry tables, after an overrun error
\* or a configuration error the wrapper neither sleeps nor makes another
\* attempt: it returns that status.
C14_OverrunAndConfigErrorsNotRetried ==
    (OverrunError \/ ConfigurationError) =>
        /\ r_pc \in {"classify", "done"}
        /\ r_pc = "done" => r_returned = r_responsecodes /\ r_hist.sleeps < r_hist.attempts

StubChunks == DOMAIN stub

Success == [done |-> TRUE, http |-> HTTP_OK, curl |-> CURLE_OK]

\* C17: in an upload where the transport fails fail[i] < nretry times with a
\* retryable status for block i and then succeeds, every sleep succeeding,
\* the transport is called exactly fail[i] + 1 times for block i, whatever
\* the other blocks and the interleaving, and the upload returns
\* (200, CURLE_OK).
C17_UploadCallsPerBlock ==
    (op = "write" /\ StubChunks # {}
        /\ \A c \in StubChunks : stub[c].fail < nretry) =>
        /\ \A c \in StubChunks :
              /\ stub[c].calls <= stub[c].fail + 1
              /\ final[c].done =>
                    final[c] = Success /\ stub[c].calls = stub[c].fail + 1
        /\ mpc = "returned" =>
              /\ result = Codes(HTTP_OK, CURLE_OK)
              /\ \A c \in StubChunks :
                    final[c].done /\ stub[c].calls = stub[c].fail + 1

C17_Witness ==
    /\ mpc = "returned" /\ op = "write"
    /\ datasize = 10 /\ nblocks = 3 /\ nretry = 3 /\ nthreads = 2
    /\ _block_datasize(datasize, nblocks, 0) = 4
    /\ _block_datasize(datasize, nblocks, 1) = 3
    /\ _block_datasize(datasize, nblocks, 2) = 3
    /\ stub[0] = [fail |-> 0, calls |-> 1]
    /\ stub[1] = [fail |-> 2, calls |-> 3]
    /\ stub[2] = [fail |-> 0, calls |-> 1]
    /\ result = Codes(HTTP_OK, CURLE_OK)

\* the calls the retry wrapper makes for a chunk transferred alone
CallsAlone(c) == MIN(stub[c].fail + 1, nretry)

\* C18: in a threaded upload or download every chunk is attempted and gets
\* the calls its retry wrapper would make for it alone, whatever the other
\* chunks obtain, also when another chunk has used up its retries.
C18_ChunksRetryIndependently ==
    StubChunks # {} =>
        /\ \A c \in StubChunks :
              /\ stub[c].calls <= CallsAlone(c)
              /\ final[c].done =>
                    /\ stub[c].calls = CallsAlone(c)
                    /\ final[c].http =
                          (IF stub[c].fail < nretry THEN HTTP_OK ELSE HTTP_UNAVAILABLE)
        /\ mpc = "returned" =>
              \A c \in StubChunks :
                 final[c].done /\ stub[c].calls >= 1 /\ stub[c].calls = CallsAlone(c)

C18_Witness ==
    /\ mpc = "parallel" /\ nretry >= 2
    /\ \E c, d \in StubChunks :
          /\ c # d
          /\ final[c].done /\ final[c].http = HTTP_UNAVAILABLE
          /\ stub[c].calls = nretry
          /\ ~final[d].done
          /\ stub[d].calls >= 1 /\ stub[d].calls < CallsAlone(d)
          /\ \E t \in team(nthreads) :
                pc[t] = "perform" /\ iblock[t] = d /\ iretry[t] >= 1

\* thread t takes the step
Stepped(t) ==
    \/ pc'[t] # pc[t]
    \/ iblock'[t] # iblock[t]
    \/ iretry'[t] # iretry[t]
    \/ currentsize'[t] # currentsize[t]
    \/ written'[t] # written[t]

SlotChanged(k) ==
    \/ thread_responsecode_http'[k] # thread_responsecode_http[k]
    \/ thread_responsecode_curl'[k] # thread_responsecode_curl[k]
    \/ slot_set'[k] # slot_set[k]

\* C19: an element of the per-thread arrays is changed only by a step of its
\* own thread; the reduction runs only when every thread has finished, every
\* element it reads holds a value written before, and what it returns is the
\* maximum over the final chunk statuses and (200, CURLE_OK), whatever the
\* order in which the chunks finished.
C19_OwnSlotThenReduce ==
    [][/\ \A k \in 0..(nthreads - 1) :
            SlotChanged(k) =>
                /\ k \in team(nthreads) /\ Stepped(k)
                /\ \A u \in team(nthreads) : u # k => ~Stepped(u) /\ ~SlotChanged(u)
       /\ result' # result =>
            /\ mpc = "parallel" /\ mpc' = "returned"
            /\ \A t \in team(nthreads) : pc[t] = "barrier"
            /\ \A k \in 0..(nthreads - 1) : slot_set[k] /\ ~SlotChanged(k)
            /\ \A c \in AllChunks : final[c].done
            /\ result'.http = SetMax({HTTP_OK} \cup {final[c].http : c \in AllChunks})
            /\ result'.curl = SetMax({CURLE_OK} \cup {final[c].curl : c \in AllChunks})
       /\ (mpc = "parallel" /\ mpc' = "returned") =>
            \A k \in 0..(nthreads - 1) : slot_set[k]]_vars

C19_Witness ==
    /\ mpc = "returned" /\ op = "read" /\ nthreads = 2
    /\ final[0].http = HTTP_NONE /\ final[0].curl = CURLE_OPERATION_TIMEDOUT
    /\ final[1].http = HTTP_UNAVAILABLE /\ final[1].curl = CURLE_OK
    /\ result = Codes(HTTP_UNAVAILABLE, CURLE_OPERATION_TIMEDOUT)

\* C21: while a threaded upload or download runs, and when it has returned,
\* the caller's credential (bearer token, refresh token, expiry) is what it
\* was on entry, and no thread has called curl_refresh_tokens, whatever the
\* attempts ended with.
C21_FanoutLeavesCredential ==
    mpc \in {"parallel", "returned"} /\ final # <<>> =>
        /\ credential = CallerCredential
        /\ ~refreshed

C21_Witness ==
    /\ mpc = "returned" /\ nthreads = 2 /\ nretry >= 2
    /\ \E c, d \in AllChunks :
          /\ final[c].http = HTTP_UNAVAILABLE
          /\ final[d] = Success
    /\ credential = CallerCredential

\* C22: for a body that carries "access_token", "expires_on" and
\* "refresh_token" once each, as a quoted name followed by a quoted value,
\* in any order and among other fields, update_tokens_from_refresh_token
\* returns with the bearer token and the refresh token equal to the
\* characters between the quotes of their values and the expiry equal to the
\* number its value spells.
C22_FieldsInAnyOrder ==
    /\ ps_pc # "crashed"
    /\ (ps_pc = "done" /\ ps_data # <<>>) =>
          /\ ps_bearer_token = ps_fields.bearer
          /\ ps_refresh_token = ps_fields.refresh
          /\ ps_expiry = decimal_prefix(ps_fields.expires, 0)

C22_Witness ==
    /\ ps_pc = "done"
    /\ strncmp_equal(string_from(ps_data, 1), REFRESH_TOKEN)
    /\ \E n \in 1..Len(ps_data) :
          /\ strncmp_equal(string_from(ps_data, n), ACCESS_TOKEN)
          /\ n + Len(ACCESS_TOKEN) + 1 + Len(ps_fields.bearer) + 3 = Len(ps_data)
    /\ Len(ps_data) > 3 + Len(ACCESS_TOKEN) + Len(REFRESH_TOKEN) + Len(EXPIRES_ON) + 18
    /\ ps_bearer_token = <<"A", "A", "A">>
    /\ ps_refresh_token = <<"B", "B", "B">>
    /\ ps_expiry = 123456

CapturedRetryAfters(requests) ==
    {captured_retry_after(hs, header_data_entry) : hs \in HeaderSequences(requests)}

\* C24: the exponential_backoff that follows attempt k of a retry wrapper is
\* called with index k and with the Retry-After value captured during
\* attempt k: 0 from the start of the attempt, the number of a Retry-After
\* header that has one, 0 after one that has none.
C24_BackoffUsesCapturedRetryAfter ==
    (r_hist.sleeps > 0 /\ r_hist.sleeps = r_hist.attempts) =>
        /\ r_hist.sleep_arg[1] = r_hist.attempts - 1
        /\ r_hist.sleep_arg[2] = r_hist.last.retry_after
        /\ r_hist.sleep_arg[2] \in CapturedRetryAfters(r_hist.requests)

\* C24 for the attempts that make a request: every attempt of
\* curl_writebytes_block_retry and curl_readbytes_retry, and the attempts of
\* curl_refresh_tokens_retry that send a token request.
C24_HoldsAfterARequest ==
    (r_hist.sleeps > 0 /\ r_hist.sleeps = r_hist.attempts /\ r_hist.requests > 0) =>
        /\ r_hist.sleep_arg[1] = r_hist.attempts - 1
        /\ r_hist.sleep_arg[2] = r_hist.last.retry_after
        /\ r_hist.sleep_arg[2] \in CapturedRetryAfters(r_hist.requests)
        /\ CapturedRetryAfters(r_hist.requests) = RetryAfters

\* the argument dataoffset of curl_readbytes_retry_threaded
DataOffsets == 0..MaxDataSize

\* C26: every curl_readbytes call of a threaded download asks for at least
\* one byte, and its Range header names a first byte and a last byte that is
\* not before it.
C26_RangeRequestsNonEmpty ==
    \A t \in team(nthreads) :
       (op = "read" /\ mpc = "parallel" /\ pc[t] \in {"perform", "write_error"}) =>
           /\ chunk_datasize(iblock[t]) >= 1
           /\ \A dataoffset \in DataOffsets :
                 LET range == curl_byterange(dataoffset + chunk_firstbyte(iblock[t]),
                                             chunk_datasize(iblock[t]))
                 IN  range.first >= 0 /\ range.last >= range.first

\* C25: a transfer that has stalled for good is aborted; a call of
\* progress_callback that finds both counters where they were, at least
\* read_timeout after the last increase, signals the abort; and no call
\* signals it less than read_timeout after the last increase.
C25_StalledTransferIsAborted ==
    /\ [][(pg_pc = "running" /\ pg_tick'.called /\ pg_tick' # pg_tick) =>
            /\ (/\ pg_tick'.dlnow = pg_tick.dlnow
                /\ pg_tick'.ulnow = pg_tick.ulnow
                /\ pg_tick'.time - pg_last_increase >= pg_progressstruct.read_timeout)
                  => pg_pc' = "aborted"
            /\ pg_pc' = "aborted" =>
                  pg_tick'.time - pg_last_increase >= pg_progressstruct.read_timeout]_vars
    /\ (pg_stalled /\ pg_pc = "running") ~> (pg_pc = "aborted")

C25_Witness ==
    /\ pg_stalled /\ pg_pc = "aborted"
    /\ pg_progressstruct.read_timeout >= 2
    /\ pg_last_increase >= 1
    /\ pg_tick.dlnow >= 1
    /\ pg_tick.time = pg_last_increase + pg_progressstruct.read_timeout

\* C27: a threaded transfer returns: no thread makes more than nretry
\* attempts for a chunk, every thread reaches the end of the parallel region,
\* and the calling thread then returns the reduced status with every chunk
\* attempted.
C27_TransferTerminates ==
    /\ [](mpc = "parallel" =>
            \A t \in team(nthreads) :
               /\ iretry[t] < nretry
               /\ pc[t] \in {"start", "perform", "write_error", "barrier"})
    /\ <>[](/\ mpc = "returned"
            /\ \A t \in team(nthreads) : pc[t] = "barrier"
            /\ \A c \in AllChunks : final[c].done)

C27_Witness ==
    /\ mpc = "returned" /\ op = "write" /\ nthreads = 2 /\ nblocks = 2 /\ nretry = 2
    /\ \A t \in team(nthreads) : pc[t] = "barrier"
    /\ final[0].curl = CURLE_OPERATION_TIMEDOUT
    /\ final[1].http = HTTP_UNAVAILABLE
    /\ result = Codes(HTTP_UNAVAILABLE, CURLE_OPERATION_TIMEDOUT)

====
